---- MODULE Spec2Model ----
(***************************************************************************)
(* A model of the vizier writing pipeline:                                 *)
(*   - SourceDirector  (backend/processes/sourcing/director.py)            *)
(*   - Router0_4       (backend/processes/connectors/router_04.py)         *)
(*   - Writer          (backend/processes/report/writer.py)                *)
(*   - SourceAgent     (backend/processes/sourcing/agent.py)               *)
(* Each component has its own specifications; the variables of the other   *)
(* components stay at their constructed values.                            *)
(***************************************************************************)
EXTENDS Integers, Sequences, FiniteSets, TLC

VARIABLES
    \* ---- SourceDirector ----
    agents,              \* self.agents: the registered agent ids
    agent_states,        \* self.agent_states: agent id -> AgentState
    source_assignments,  \* self.source_assignments: source id -> agent id
    query_history,       \* self.query_history
    sem_value,           \* self.query_semaphore._value
    pc,                  \* position of each get_clarification coroutine
    req,                 \* the DirectorRequest of each coroutine
    fate,                \* what the agent call of each coroutine will do
    result,              \* what each get_clarification call returned
    returned,            \* the list process_parallel_queries returned
    health,              \* what check_agent_health returned, and when
    \* ---- Router0_4 ----
    cleaned_web_sources,      \* self.cleaned_web_sources, in insertion order
    cleaned_twitter_sources,  \* self.cleaned_twitter_sources, in insertion order
    refined_query,            \* the words of user_context["refined_query"]
    quality_threshold,        \* self.quality_threshold, in hundredths
    thematic,                 \* source id -> what _extract_thematic_keywords
                              \* returns for it in this process
    reranked_sources,         \* self.reranked_sources: the ids, in order
    themes,                   \* the themes dict of _cluster_sources_by_theme
    thematic_clusters,        \* self.thematic_clusters, in insertion order
    assigned_agents,          \* self.assigned_agents: agent_1, agent_2, ...
    second_run,               \* rerank_sources' result in another process
    r_pc,                     \* how far prepare_writing_context has come
    \* ---- Writer ----
    w_methods,        \* the helper methods generate_draft finds on self
    synthesis_fails,  \* the completion service fails the draft synthesis call
    w_sources,        \* len(request.reranked_sources)
    clarification_requests,  \* number of requests handed to
                             \* _coordinate_source_agents
    agent_requests,   \* agent_requests of _coordinate_source_agents, and how
                      \* far process_agent_requests has come for each agent
    current_draft,    \* current_draft of generate_draft
    iteration,        \* iteration of generate_draft
    evaluation,       \* evaluation of generate_draft
    evaluations,      \* meets_threshold of every _evaluate_draft call so far
    iterate_calls,    \* number of _iterate_draft calls that were made
    response,         \* the WriterResponse generate_draft returned
    w_pc,             \* position of the generate_draft coroutine
    \* ---- SourceAgent ----
    processed_sources,    \* self.processed_sources: the ids it holds
    clarification_cache,  \* self.clarification_cache: cache key -> entry
    ps_attempted,         \* the process_source calls of process_all_sources,
                          \* in order, and whether each succeeded
    ps_results,           \* results of process_all_sources
    ps_steps,             \* how the steps of the process_source call that
                          \* process_all_sources made last ended
    ps_pc,                \* position of the process_all_sources coroutine
    c_pc,                 \* position of each get_clarification coroutine
    c_req,                \* (source_id, query) of each get_clarification call
    c_text,               \* clarification of each call, once it was generated
    c_verified,           \* how the verification of each call ended
    c_calls,              \* completion-service calls each call has made
    c_result              \* what each get_clarification call returned

dirVars == <<agents, agent_states, source_assignments, query_history,
             sem_value, pc, req, fate, result, returned, health>>

routerVars == <<cleaned_web_sources, cleaned_twitter_sources, refined_query,
                quality_threshold, thematic, reranked_sources, themes,
                thematic_clusters, assigned_agents, second_run, r_pc>>

writerVars == <<w_methods, synthesis_fails, w_sources,
                clarification_requests, agent_requests,
                current_draft, iteration, evaluation, evaluations,
                iterate_calls, response, w_pc>>

agentVars == <<processed_sources, clarification_cache, ps_attempted,
               ps_results, ps_steps, ps_pc, c_pc, c_req, c_text, c_verified,
               c_calls, c_result>>

vars == <<dirVars, routerVars, writerVars, agentVars>>

(***************************************************************************)
(* SourceDirector                                                          *)
(***************************************************************************)

\* self.max_parallel_queries = 5
max_parallel_queries == 5

\* Number of requests handed to process_parallel_queries.
NumReq == 6

Tasks == 1..NumReq

NoReq == [agent_id |-> "-", source_id |-> "-"]

\* The values of a coroutine's result: not returned yet, and Python's None.
NotYet == [agent_id |-> "-", source_id |-> "-", clarification |-> "NotYet",
           confidence_pos |-> FALSE]
None == [agent_id |-> "-", source_id |-> "-", clarification |-> "None",
         confidence_pos |-> FALSE]

AgentIds == {"agent_1", "agent_2"}
SourceIds == {"s1", "s2", "s3"}

\* The register_agent calls the model draws from: (agent id, assigned_sources).
RegChoices ==
    { <<"agent_1", <<"s1", "s2">> >>,
      <<"agent_2", <<"s3">> >> }

\* The requests the model draws from.
BaseReq == [agent_id |-> "agent_1", source_id |-> "s1"]
ReqChoices ==
    { BaseReq,
      [agent_id |-> "agent_2", source_id |-> "s3"],
      [agent_id |-> "agent_1", source_id |-> "s3"] }

\* Most requests of a list are BaseReq with an agent call that answers; at
\* most MaxOdd of them are another request or have an agent call that raises.
MaxOdd == 1

\* What the awaited agent.get_clarification does: it returns an answer, it
\* returns one of its error strings ("Source ... not found", "Error clarifying
\* source ...") because it could not produce an answer, or it raises.
AgentOutcomes == {"ok", "no_answer", "raise"}

Range(s) == { s[i] : i \in DOMAIN s }

\* AgentState(agent_id=..., assigned_sources=...) with its defaults.
AgentState(srcs) ==
    [assigned_sources |-> srcs, active_queries |-> 0, completed_queries |-> 0]

\* DEFAULT_QUALITY_THRESHOLD = 0.6, in hundredths
DEFAULT_QUALITY_THRESHOLD == 60

\* A Router0_4 that was given no sources and has not been run.
RouterIdle ==
    /\ cleaned_web_sources = << >>
    /\ cleaned_twitter_sources = << >>
    /\ refined_query = {}
    /\ quality_threshold = DEFAULT_QUALITY_THRESHOLD
    /\ thematic = << >>
    /\ reranked_sources = << >>
    /\ themes = << >>
    /\ thematic_clusters = << >>
    /\ assigned_agents = << >>
    /\ second_run = << >>
    /\ r_pc = "init"

\* check_agent_health has not been called.
NoHealth == [now |-> 0, results |-> << >>]

\* SourceDirector()
DirectorIdle ==
    /\ agents = {}
    /\ agent_states = << >>
    /\ source_assignments = << >>
    /\ query_history = << >>
    /\ sem_value = max_parallel_queries
    /\ pc = [t \in Tasks |-> "new"]
    /\ req = [t \in Tasks |-> NoReq]
    /\ fate = [t \in Tasks |-> "ok"]
    /\ result = [t \in Tasks |-> NotYet]
    /\ returned = << >>
    /\ health = NoHealth

\* evaluation = None, and no WriterResponse yet
\* QualityScore(coverage=0, depth=0, coherence=0, citation=0)
ZeroScores == [coverage |-> 0, depth |-> 0, coherence |-> 0, citation |-> 0]
NoEvaluation == [scores |-> ZeroScores, meets_threshold |-> FALSE,
                 improvements_needed |-> <<"None">>]
NoResponse == [report_draft |-> "None", suggested_improvements |-> <<"None">>]

\* Writer() whose generate_draft has not been called.
WriterIdle ==
    /\ w_methods = {}
    /\ synthesis_fails = FALSE
    /\ w_sources = 0
    /\ clarification_requests = 0
    /\ agent_requests = << >>
    /\ current_draft = "None"
    /\ iteration = 0
    /\ evaluation = NoEvaluation
    /\ evaluations = << >>
    /\ iterate_calls = 0
    /\ response = NoResponse
    /\ w_pc = "idle"

\* Number of get_clarification calls made on the source agent.
NumCalls == 2

Calls == 1..NumCalls

\* A call that was not made yet.
NoCall == [source_id |-> "-", query |-> "-"]

\* The verification of a call has not ended.
NotVerified == [kind |-> "-", confidence |-> 0]

\* No process_source call is being looked at.
NoSteps == [plan |-> "-", quotes |-> "-", insights |-> "-", summary |-> "-",
            failed |-> {}, raised |-> FALSE]

\* SourceAgent(...) none of whose methods has been called.
AgentIdle ==
    /\ processed_sources = {}
    /\ clarification_cache = << >>
    /\ ps_attempted = << >>
    /\ ps_results = {}
    /\ ps_steps = NoSteps
    /\ ps_pc = "idle"
    /\ c_pc = [t \in Calls |-> "new"]
    /\ c_req = [t \in Calls |-> NoCall]
    /\ c_text = [t \in Calls |-> "-"]
    /\ c_verified = [t \in Calls |-> NotVerified]
    /\ c_calls = [t \in Calls |-> 0]
    /\ c_result = [t \in Calls |-> "NotYet"]

InitDirector == DirectorIdle /\ RouterIdle /\ WriterIdle /\ AgentIdle

\* register_agent that leaves a source with the agent that has it.
RegisterKeepsOwner(a, srcs) ==
    /\ agents' = agents \cup {a}
    /\ agent_states' =
          [x \in (DOMAIN agent_states) \cup {a} |->
              IF x = a THEN AgentState(srcs) ELSE agent_states[x]]
    /\ source_assignments' =
          [s \in (DOMAIN source_assignments) \cup Range(srcs) |->
              IF s \in DOMAIN source_assignments
                THEN source_assignments[s] ELSE a]
    /\ UNCHANGED <<query_history, sem_value, pc, req, fate, result, returned>>
    /\ UNCHANGED <<health, routerVars, writerVars, agentVars>>

\* register_agent(agent_id, agent, assigned_sources)
register_agent(a, srcs) ==
    /\ agents' = agents \cup {a}
    /\ agent_states' =
          [x \in (DOMAIN agent_states) \cup {a} |->
              IF x = a THEN AgentState(srcs) ELSE agent_states[x]]
    /\ source_assignments' =
          [s \in (DOMAIN source_assignments) \cup Range(srcs) |->
              IF s \in Range(srcs) THEN a ELSE source_assignments[s]]
    /\ UNCHANGED <<query_history, sem_value, pc, req, fate, result, returned>>
    /\ UNCHANGED <<health, routerVars, writerVars, agentVars>>

\* _get_agent_for_source
GetAgentForSource(s) ==
    IF s \in DOMAIN source_assignments THEN source_assignments[s] ELSE "None"

\* The "Validate request" block of get_clarification: TRUE when the request
\* is let through.
\* Validate without the source ownership check.
ValidateNoSourceCheck(r) == r.agent_id \in agents

Validate(r) ==
    /\ r.agent_id \in agents
    /\ GetAgentForSource(r.source_id) = r.agent_id

\* Enter without waiting for a free slot.
EnterNoWait(t, a) ==
    /\ sem_value' = sem_value - 1
    /\ agent_states' = [agent_states EXCEPT ![a].active_queries = @ + 1]
    /\ pc' = [pc EXCEPT ![t] = "in_agent"]

\* Entering "async with self.query_semaphore" and the try block: the slot is
\* taken and the agent's active query count incremented; the coroutine then
\* suspends inside agent.get_clarification.
Enter(t, a) ==
    /\ sem_value > 0
    /\ sem_value' = sem_value - 1
    /\ agent_states' = [agent_states EXCEPT ![a].active_queries = @ + 1]
    /\ pc' = [pc EXCEPT ![t] = "in_agent"]

\* A get_clarification coroutine runs from its call to its first suspension.
\* gather starts the coroutines in list order.
Odd(r, o) == r # BaseReq \/ o # "ok"
Start(t, r, o) ==
    /\ pc[t] = "new"
    /\ \A u \in Tasks : u < t => pc[u] # "new"
    /\ Odd(r, o) =>
          Cardinality({u \in Tasks : pc[u] # "new" /\ Odd(req[u], fate[u])}) < MaxOdd
    /\ ~Validate(r) => o = "ok"
    /\ req' = [req EXCEPT ![t] = r]
    /\ fate' = [fate EXCEPT ![t] = o]
    /\ IF ~Validate(r)
         THEN /\ pc' = [pc EXCEPT ![t] = "done"]
              /\ result' = [result EXCEPT ![t] = None]
              /\ UNCHANGED <<sem_value, agent_states>>
         ELSE /\ UNCHANGED result
              /\ IF sem_value > 0
                   THEN Enter(t, r.agent_id)
                   ELSE /\ pc' = [pc EXCEPT ![t] = "waiting"]
                        /\ UNCHANGED <<sem_value, agent_states>>
    /\ UNCHANGED <<agents, source_assignments, query_history, returned>>
    /\ UNCHANGED <<health, routerVars, writerVars, agentVars>>

\* A coroutine waiting for the semaphore is woken and takes the freed slot.
Acquire(t) ==
    /\ pc[t] = "waiting"
    /\ Enter(t, req[t].agent_id)
    /\ UNCHANGED <<agents, source_assignments, query_history, req, fate,
                   result, returned>>
    /\ UNCHANGED <<health, routerVars, writerVars, agentVars>>

\* The text of the DirectorResponse: what the agent returned, or "Error: ..."
\* when the agent call raised.
ClarificationText(o) ==
    CASE o = "ok" -> "text"
      [] o = "no_answer" -> "error_text"
      [] OTHER -> "Error"

\* The DirectorResponse _process_query builds. The confidence is the one of
\* the agent's processed source (0.5 without one), and 0.0 only when the
\* agent call raised.
Response(r, o) ==
    [agent_id |-> r.agent_id, source_id |-> r.source_id,
     clarification |-> ClarificationText(o),
     confidence_pos |-> (o # "raise")]

\* _update_agent_metrics followed by the "finally" of get_clarification.
\* The same without the count of completed queries.
UpdateAgentNoCount(st, a) == [st EXCEPT ![a].active_queries = @ - 1]
\* The same without the decrement of the "finally".
UpdateAgentNoDecrement(st, a) == [st EXCEPT ![a].completed_queries = @ + 1]

UpdateAgent(st, a) ==
    [st EXCEPT ![a].completed_queries = @ + 1,
               ![a].active_queries = @ - 1]

\* The same, but the slot of a call whose agent call raised is not released.
AgentReturnsKeepsSlot(t) ==
    /\ pc[t] = "in_agent"
    /\ LET r == req[t]
           resp == Response(r, fate[t])
       IN /\ agent_states' = UpdateAgent(agent_states, r.agent_id)
          /\ query_history' = Append(query_history,
                 [agent_id |-> r.agent_id, source_id |-> r.source_id,
                  success |-> resp.confidence_pos])
          /\ result' = [result EXCEPT ![t] = resp]
    /\ sem_value' = IF fate[t] = "raise" THEN sem_value ELSE sem_value + 1
    /\ pc' = [pc EXCEPT ![t] = "done"]
    /\ UNCHANGED <<agents, source_assignments, req, fate, returned>>
    /\ UNCHANGED <<health, routerVars, writerVars, agentVars>>

\* The awaited agent call ends (o); _process_query builds the response and
\* updates the metrics, get_clarification logs the query, returns, decrements
\* the active query count and releases the slot.
AgentReturns(t) ==
    /\ pc[t] = "in_agent"
    /\ LET r == req[t]
           resp == Response(r, fate[t])
       IN /\ agent_states' = UpdateAgent(agent_states, r.agent_id)
          /\ query_history' = Append(query_history,
                 [agent_id |-> r.agent_id, source_id |-> r.source_id,
                  success |-> resp.confidence_pos])
          /\ result' = [result EXCEPT ![t] = resp]
    /\ sem_value' = sem_value + 1
    /\ pc' = [pc EXCEPT ![t] = "done"]
    /\ UNCHANGED <<agents, source_assignments, req, fate, returned>>
    /\ UNCHANGED <<health, routerVars, writerVars, agentVars>>

\* The list asyncio.gather hands back: one element per awaitable, in the
\* order of the awaitables.
\* Gather with the failed requests filtered out of the list.
GatherFiltered == SelectSeq([i \in Tasks |-> result[i]], LAMBDA r : r # None)

Gather == [i \in Tasks |-> result[i]]

\* process_parallel_queries returns once every coroutine has finished.
ProcessParallelReturn ==
    /\ returned = << >>
    /\ \A t \in Tasks : pc[t] = "done"
    /\ returned' = Gather
    /\ UNCHANGED <<agents, agent_states, source_assignments, query_history,
                   sem_value, pc, req, fate, result>>
    /\ UNCHANGED <<health, routerVars, writerVars, agentVars>>

\* The agents are registered before the first query is issued
\* (initialize_writing_pipeline).
Register ==
    /\ \A t \in Tasks : pc[t] = "new"
    /\ \E c \in RegChoices : register_agent(c[1], c[2])

NextDirector ==
    \/ Register
    \/ \E t \in Tasks, r \in ReqChoices, o \in AgentOutcomes : Start(t, r, o)
    \/ \E t \in Tasks : Acquire(t)
    \/ \E t \in Tasks : AgentReturns(t)
    \/ ProcessParallelReturn

SpecDirector == InitDirector /\ [][NextDirector]_vars

\* Every awaited agent call ends, and a released semaphore wakes a waiting
\* coroutine; the event loop runs process_parallel_queries on once gather
\* is done.
FairDirector ==
    /\ WF_vars(\E t \in Tasks : AgentReturns(t))
    /\ WF_vars(\E t \in Tasks : Acquire(t))
    /\ WF_vars(ProcessParallelReturn)

\* process_parallel_queries over requests that all pass the validation,
\* whose agent calls return or raise.
NextQueue ==
    \/ Register
    \/ \E t \in Tasks, o \in {"ok", "raise"} : Start(t, BaseReq, o)
    \/ \E t \in Tasks : Acquire(t)
    \/ \E t \in Tasks : AgentReturns(t)
    \/ ProcessParallelReturn

SpecQueueFair == InitDirector /\ [][NextQueue]_vars /\ FairDirector

(***************************************************************************)
(* SourceDirector: register_agent on a Director that answers queries       *)
(***************************************************************************)

\* The register_agent calls made at any time: those of RegChoices, agent_1
\* again with a shorter source list, and agent_2 with a source that agent_1
\* was given.
LateRegChoices ==
    RegChoices \cup { <<"agent_1", <<"s1">> >>,
                      <<"agent_2", <<"s2", "s3">> >> }

\* The requests: those of ReqChoices and the two for the source given twice.
LateReqChoices ==
    ReqChoices \cup { [agent_id |-> "agent_1", source_id |-> "s2"],
                      [agent_id |-> "agent_2", source_id |-> "s2"] }

\* Number of get_clarification calls made on the Director directly; they
\* are fewer than max_parallel_queries, so none waits for the semaphore.
NumLateReq == 2

\* register_agent is a coroutine without an await: it runs in one piece,
\* between any two steps of the get_clarification coroutines.
RegisterAnyTime == \E c \in LateRegChoices : register_agent(c[1], c[2])

NextReregister ==
    \/ RegisterAnyTime
    \/ \E t \in 1..NumLateReq, r \in LateReqChoices, o \in AgentOutcomes :
          Start(t, r, o)
    \/ \E t \in Tasks : AgentReturns(t)

SpecReregister == InitDirector /\ [][NextReregister]_vars

(***************************************************************************)
(* SourceDirector: properties                                              *)
(***************************************************************************)

InAgent == {t \in Tasks : pc[t] = "in_agent"}

\* C1: at most max_parallel_queries (5) get_clarification calls are inside
\* the agent layer at the same time, however many calls were issued.
C1_AtMostFiveInAgent == Cardinality(InAgent) <= max_parallel_queries

\* C1 witness: five calls are inside the agent layer and a sixth one waits.
C1_Witness ==
    /\ Cardinality(InAgent) = max_parallel_queries
    /\ \E t \in Tasks : pc[t] = "waiting"

\* The request names a registered agent that the assignment map gives the
\* source to.
Routable(r) ==
    /\ r.agent_id \in DOMAIN agent_states
    /\ r.source_id \in DOMAIN source_assignments
    /\ source_assignments[r.source_id] = r.agent_id

\* C3: a request whose agent id is unknown, or whose source is not assigned
\* to that agent, yields None: the coroutine never reaches the agent, and the
\* semaphore, the agent counters and the query history are left unchanged.
C3_MisroutedRejected ==
    [][\A t \in Tasks :
          (pc[t] = "new" /\ pc'[t] # "new" /\ ~Routable(req'[t])) =>
             /\ pc'[t] = "done"
             /\ result'[t] = None
             /\ UNCHANGED <<sem_value, agent_states, query_history>>]_vars

\* C3 witness: agent_1 is registered with [s1, s2] and a request for s3
\* through agent_1 has been rejected.
C3_Witness ==
    /\ "agent_1" \in agents
    /\ agent_states["agent_1"].assigned_sources = <<"s1", "s2">>
    /\ \E t \in Tasks :
          /\ req[t] = [agent_id |-> "agent_1", source_id |-> "s3"]
          /\ pc[t] = "done"
          /\ result[t] = None

\* Some coroutine of the fan-out can take a step.
CoroutineStep ==
    \/ \E t \in Tasks, r \in ReqChoices, o \in AgentOutcomes : Start(t, r, o)
    \/ \E t \in Tasks : Acquire(t)
    \/ \E t \in Tasks : AgentReturns(t)

\* The outcome of request i: None when it is rejected, else a response for
\* its agent and source, an error response when the agent call raised.
OutcomeOf(i) ==
    IF ~Routable(req[i]) THEN None
    ELSE [agent_id |-> req[i].agent_id, source_id |-> req[i].source_id,
          clarification |->
             CASE fate[i] = "ok" -> "text"
               [] fate[i] = "no_answer" -> "error_text"
               [] OTHER -> "Error",
          confidence_pos |-> (fate[i] # "raise")]

\* C10: process_parallel_queries returns a list as long as the request list
\* whose element i is the outcome of request i, and while a request has not
\* finished, a rejected or failed sibling never blocks it: a waiting request
\* has a slot free or a sibling still holding one, and some coroutine can run.
C10_FanOutFanIn ==
    /\ returned # << >> =>
          /\ Len(returned) = NumReq
          /\ \A i \in Tasks : returned[i] = OutcomeOf(i)
    /\ \A t \in Tasks :
          pc[t] = "waiting" => (sem_value > 0 \/ InAgent # {})
    /\ (\E t \in Tasks : pc[t] # "done") => ENABLED CoroutineStep

\* C10 witness: the list was returned with a rejected request (None) and a
\* sibling after it that was answered.
C10_Witness ==
    /\ returned # << >>
    /\ \E i, j \in Tasks :
          /\ i < j
          /\ returned[i] = None
          /\ returned[j].clarification = "text"

\* Request i failed: it was misrouted, or its agent call raised or returned
\* an error string instead of an answer.
FailedRequest(i) == ~Routable(req[i]) \/ fate[i] # "ok"

\* C11: in the list process_parallel_queries returns, every failed request
\* is None at its position, and an element that is not None is a successful
\* clarification.
C11_FailedRequestsAreNone ==
    returned # << >> =>
       \A i \in DOMAIN returned :
          /\ FailedRequest(i) => returned[i] = None
          /\ returned[i] # None =>
                /\ ~FailedRequest(i)
                /\ returned[i].clarification = "text"

\* The completed_queries of the agents of S, added up.
RECURSIVE CompletedQueries(_)
CompletedQueries(S) ==
    IF S = {} THEN 0
    ELSE LET a == CHOOSE x \in S : TRUE
         IN agent_states[a].completed_queries + CompletedQueries(S \ {a})

\* A validated request is waiting for the semaphore or inside the agent.
InFlight == \E t \in Tasks : pc[t] \in {"waiting", "in_agent"}

\* The requests that passed validation and have returned.
Answered == {t \in Tasks : pc[t] = "done" /\ result[t] # None}

\* C30: every get_clarification request that passes validation appends one
\* entry to query_history and adds one to the completed_queries of its agent,
\* whether the agent call failed or not, and nothing else changes either; so
\* whenever no request is in flight the length of query_history is the sum
\* of completed_queries over all agents, and the number of validated
\* requests that have returned.
C30_HistoryMatchesCompleted ==
    /\ [](~InFlight =>
            /\ Len(query_history) = CompletedQueries(DOMAIN agent_states)
            /\ Len(query_history) = Cardinality(Answered))
    /\ [][\A t \in Tasks :
            IF pc[t] = "in_agent" /\ pc'[t] = "done"
              THEN /\ Len(query_history') = Len(query_history) + 1
                   /\ agent_states'[req[t].agent_id].completed_queries =
                        agent_states[req[t].agent_id].completed_queries + 1
                   /\ \A a \in DOMAIN agent_states \ {req[t].agent_id} :
                        agent_states'[a].completed_queries =
                          agent_states[a].completed_queries
              ELSE (\A u \in Tasks : ~(pc[u] = "in_agent" /\ pc'[u] = "done"))
                     => /\ query_history' = query_history
                        /\ \A a \in DOMAIN agent_states :
                             agent_states'[a].completed_queries =
                               agent_states[a].completed_queries]_vars

\* C30 witness: no request is in flight; one agent call raised, others
\* answered, and each of them is in query_history and counted as completed.
C30_Witness ==
    /\ ~InFlight
    /\ \E t \in Answered : fate[t] = "raise"
    /\ \E t \in Answered : fate[t] = "ok"
    /\ Len(query_history) >= 3
    /\ CompletedQueries(DOMAIN agent_states) = Len(query_history)

\* The get_clarification calls for agent a that hold a semaphore slot.
HoldingSlot(a) == {t \in Tasks : pc[t] = "in_agent" /\ req[t].agent_id = a}

\* C31: with no agent re-registered while queries are in flight, an agent's
\* active_queries is the number of get_clarification calls for it that hold
\* a semaphore slot; calls waiting for a slot are not counted, and the count
\* is back at 0 when none is in flight, also after an agent call raised.
C31_ActiveQueriesCountSlots ==
    \A a \in DOMAIN agent_states :
        /\ agent_states[a].active_queries = Cardinality(HoldingSlot(a))
        /\ ~InFlight => agent_states[a].active_queries = 0

\* C31 witness: an agent call has raised and returned, a call for the same
\* agent waits for a slot, and the agent's count is that of the calls inside.
C31_Witness ==
    \E t \in Tasks, w \in Tasks :
        /\ pc[t] = "done" /\ result[t] # None /\ fate[t] = "raise"
        /\ pc[w] = "waiting" /\ req[w].agent_id = req[t].agent_id
        /\ agent_states[req[t].agent_id].active_queries
              = max_parallel_queries - 1

\* A register_agent call is the only step that leaves every coroutine where
\* it is.
RegisterStep == pc' = pc

\* Coroutine t makes its first step.
StartStep(t) == pc[t] = "new" /\ pc'[t] # "new"

\* C32: register_agent never rejects a source that another agent has: the
\* call registers the agent, every source of its list routes to it from then
\* on and no other source changes its agent; a later request for such a
\* source through the agent that had it returns None without reaching an
\* agent.
C32_DoubleAssignmentLastWins ==
    /\ [](\A c \in LateRegChoices : ENABLED register_agent(c[1], c[2]))
    /\ [][RegisterStep =>
            \E c \in LateRegChoices :
                /\ c[1] \in agents'
                /\ agent_states'[c[1]] = AgentState(c[2])
                /\ \A s \in Range(c[2]) : GetAgentForSource(s)' = c[1]
                /\ \A s \in SourceIds \ Range(c[2]) :
                      GetAgentForSource(s)' = GetAgentForSource(s)]_vars
    /\ [][\A t \in Tasks :
            (StartStep(t) /\ GetAgentForSource(req'[t].source_id)
                                # req'[t].agent_id) =>
                /\ pc'[t] = "done"
                /\ result'[t] = None
                /\ UNCHANGED <<agent_states, sem_value, query_history>>]_vars

\* C32 witness: s2 is in the list of agent_1 and routes to agent_2, which
\* was registered with it later; agent_1 has answered a request, and its
\* request for s2 was turned away.
C32_Witness ==
    /\ "agent_1" \in DOMAIN agent_states
    /\ "s2" \in Range(agent_states["agent_1"].assigned_sources)
    /\ GetAgentForSource("s2") = "agent_2"
    /\ \E t \in Tasks :
          /\ pc[t] = "done"
          /\ req[t] = [agent_id |-> "agent_1", source_id |-> "s2"]
          /\ result[t] = None
    /\ \E t \in Tasks : pc[t] = "done" /\ req[t] = BaseReq /\ result[t] # None

\* C33: when every agent call returns or raises, every get_clarification
\* call that was made returns, also one that waited for a slot: from any
\* moment on a moment comes at which every call made so far has returned,
\* and a call that has returned stays so; and whenever no request is in
\* flight the semaphore has all its max_parallel_queries slots, also after
\* an agent call raised.
C33_EveryCallReturns ==
    /\ []<>(\A t \in Tasks : pc[t] \in {"new", "done"})
    /\ [][\A t \in Tasks : pc[t] = "done" => pc'[t] = "done"]_vars
    /\ [](~InFlight => sem_value = max_parallel_queries)

\* C33 witness: every call has returned, one of them after its agent call
\* raised, more calls were made than there are slots, and the semaphore is
\* back at max_parallel_queries.
C33_Witness ==
    /\ \A t \in Tasks : pc[t] = "done"
    /\ \E t \in Tasks : fate[t] = "raise" /\ result[t] # None
    /\ Cardinality(Answered) > max_parallel_queries
    /\ sem_value = max_parallel_queries

\* C34: whatever the interleaving of register_agent and get_clarification
\* calls, also when an agent is registered again while one of its queries is
\* inside the agent call, every agent's active_queries is at least 0 and at
\* most max_parallel_queries.
C34_ActiveQueriesInRange ==
    \A a \in DOMAIN agent_states :
        /\ agent_states[a].active_queries >= 0
        /\ agent_states[a].active_queries <= max_parallel_queries

\* C38: after any sequence of register_agent calls, a source routes to an
\* agent only if it is in the assigned_sources of that agent's AgentState,
\* so that a request (a, s) is dispatched only for such a source.
C38_RoutedSourceIsAssigned ==
    \A s \in DOMAIN source_assignments :
        s \in Range(agent_states[source_assignments[s]].assigned_sources)

\* The agent call of coroutine t ends in this step.
AgentCallEnds(t) == pc[t] = "in_agent" /\ pc'[t] = "done"

\* C37: the query_history entry of a request for which the agent produced no
\* real answer (it returned one of its error strings, or it raised) has
\* success = FALSE.
C37_NoAnswerIsNoSuccess ==
    [][\A t \in Tasks :
          (AgentCallEnds(t) /\ fate[t] # "ok") =>
              ~query_history'[Len(query_history')].success]_vars

(***************************************************************************)
(* SourceDirector: check_agent_health                                      *)
(***************************************************************************)

\* The limits of check_agent_health: 3600 seconds of inactivity and an
\* average response time of 30 seconds.
MaxInactiveSeconds == 3600
MaxAvgResponseTime == 30

\* The clock readings (seconds) the model draws from: last_active of an
\* agent, and datetime.now() at the health check.
LastActiveTimes == {0, 1, 2}
CheckTimes == {3600, 3601}
AvgResponseTimes == {0, 29, 30, 31}

\* The agent states of a director that has been answering queries.
HealthStates ==
    [assigned_sources : {<< >>},
     active_queries : 0..max_parallel_queries,
     completed_queries : {0},
     avg_response_time : AvgResponseTimes,
     last_active : LastActiveTimes]

\* inactive_time < 3600
InactiveAtMostLimit(inactive_time) == inactive_time <= MaxInactiveSeconds
InactiveBelowLimit(inactive_time) == inactive_time < MaxInactiveSeconds

\* is_healthy of check_agent_health for one agent state, at time now.
IsHealthy(state, now) ==
    /\ InactiveBelowLimit(now - state.last_active)
    /\ state.avg_response_time < MaxAvgResponseTime
    /\ state.active_queries < max_parallel_queries

\* check_agent_health(): one verdict per agent of agent_states.
CheckAgentHealth ==
    /\ health = NoHealth
    /\ \E now \in CheckTimes :
          health' = [now |-> now,
                     results |-> [a \in DOMAIN agent_states |->
                                     IsHealthy(agent_states[a], now)]]
    /\ UNCHANGED <<agents, agent_states, source_assignments, query_history,
                   sem_value, pc, req, fate, result, returned>>
    /\ UNCHANGED <<routerVars, writerVars, agentVars>>

\* A director with both agents registered, in any of the agent states.
InitHealth ==
    /\ agents = AgentIds
    /\ agent_states \in [AgentIds -> HealthStates]
    /\ source_assignments = << >>
    /\ query_history = << >>
    /\ sem_value = max_parallel_queries
    /\ pc = [t \in Tasks |-> "new"]
    /\ req = [t \in Tasks |-> NoReq]
    /\ fate = [t \in Tasks |-> "ok"]
    /\ result = [t \in Tasks |-> NotYet]
    /\ returned = << >>
    /\ health = NoHealth
    /\ RouterIdle /\ WriterIdle /\ AgentIdle

NextHealth == CheckAgentHealth

SpecHealth == InitHealth /\ [][NextHealth]_vars

InactiveTime(a) == health.now - agent_states[a].last_active

\* C21 as stated: an agent is reported unhealthy exactly when it has been
\* inactive for more than 1 hour, or its average response time is >= 30 s, or
\* its active-query count is >= max_parallel_queries.
C21_UnhealthyAfterMoreThanOneHour ==
    \A a \in DOMAIN health.results :
       ~health.results[a] <=>
          \/ InactiveTime(a) > MaxInactiveSeconds
          \/ agent_states[a].avg_response_time >= MaxAvgResponseTime
          \/ agent_states[a].active_queries >= max_parallel_queries

\* C21 amended: an agent is reported unhealthy exactly when it has been
\* inactive for 1 hour or more, or its average response time is >= 30 s, or
\* its active-query count is >= max_parallel_queries.
C21_UnhealthyFromOneHour ==
    \A a \in DOMAIN health.results :
       ~health.results[a] <=>
          \/ InactiveTime(a) >= MaxInactiveSeconds
          \/ agent_states[a].avg_response_time >= MaxAvgResponseTime
          \/ agent_states[a].active_queries >= max_parallel_queries

\* C21 witness: the health check ran for an agent that was inactive for
\* exactly one hour and is otherwise within the limits, and for an agent
\* that is within all three limits.
C21_Witness ==
    /\ health # NoHealth
    /\ \E a, b \in DOMAIN health.results :
          /\ InactiveTime(a) = MaxInactiveSeconds
          /\ agent_states[a].avg_response_time < MaxAvgResponseTime
          /\ agent_states[a].active_queries < max_parallel_queries
          /\ ~health.results[a]
          /\ InactiveTime(b) < MaxInactiveSeconds
          /\ health.results[b]

(***************************************************************************)
(* Router0_4                                                               *)
(***************************************************************************)

\* MIN_SOURCE_AGENTS, MAX_SOURCE_AGENTS
MIN_SOURCE_AGENTS == 3
MAX_SOURCE_AGENTS == 15

\* unique_keywords[:10] in _extract_thematic_keywords
KeywordLimit == 10

\* Number of sources of the drawn source maps.
NumSources == 4

Max(a, b) == IF a >= b THEN a ELSE b
Min(a, b) == IF a <= b THEN a ELSE b

\* A CleanedSource: quality_score in hundredths; keywords are the source's
\* own keywords, title_words the lower-cased words of the title longer than
\* three letters (the sources drawn have no content snippet).
Source(id, type, quality, relevance, keywords, title_words) ==
    [id |-> id, source_type |-> type, quality_score |-> quality,
     relevance |-> relevance, keywords |-> keywords,
     title_words |-> title_words]

SourceNames == <<"A", "B", "C", "D", "E", "F", "G", "H">>
ThemeWords == {"x", "y", "z"}

\* {**self.cleaned_web_sources, **self.cleaned_twitter_sources}: the web
\* entries keep their place, a twitter entry with the same id replaces the
\* value, the other twitter entries follow.
Ids(srcs) == { srcs[i].id : i \in DOMAIN srcs }
ById(srcs, id) == srcs[CHOOSE i \in DOMAIN srcs : srcs[i].id = id]
CombinedSources(web, tw) ==
    [i \in DOMAIN web |->
        IF web[i].id \in Ids(tw) THEN ById(tw, web[i].id) ELSE web[i]]
    \o SelectSeq(tw, LAMBDA x : x.id \notin Ids(web))

\* _extract_thematic_keywords: list(set(keywords))[:10]. The order of a set
\* of strings depends on the hash seed of the process, so with more than ten
\* keywords any ten of them may be the result.
ExtractThematicKeywords(src) ==
    LET K == src.keywords \cup src.title_words
    IN IF Cardinality(K) <= KeywordLimit THEN {K}
       ELSE { S \in SUBSET K : Cardinality(S) = KeywordLimit }

\* The results _extract_thematic_keywords can have in one process, for every
\* source of a list.
RECURSIVE Extractions(_)
Extractions(srcs) ==
    IF srcs = << >> THEN { << >> }
    ELSE { <<e>> \o rest : e \in ExtractThematicKeywords(Head(srcs)),
                           rest \in Extractions(Tail(srcs)) }

ExtractionMaps(srcs) ==
    { [id \in Ids(srcs) |->
          es[CHOOSE i \in DOMAIN srcs : srcs[i].id = id]] :
      es \in Extractions(srcs) }

\* The "low-quality" filter of rerank_sources: a source below the threshold.
BelowThresholdStrict(src, thr) == src.quality_score <= thr
BelowThreshold(src, thr) == src.quality_score < thr

FilterSources(srcs, thr) ==
    SelectSeq(srcs, LAMBDA x : ~BelowThreshold(x, thr))

\* relevance_numeric, in hundredths
RelevanceNumeric(rel) ==
    CASE rel = "high" -> 100
      [] rel = "medium" -> 70
      [] rel = "low" -> 40
      [] OTHER -> 0

\* source_score, in thousandths:
\* 0.6 * relevance_numeric + 0.3 * quality_score + 0.1 * diversity_score
SourceScore(src, kws, query) ==
    LET unique_keywords == kws \ query
        diversity == Min(100, (Cardinality(unique_keywords) * 100) \div 5)
    IN 6 * RelevanceNumeric(src.relevance) + 3 * src.quality_score + diversity

\* sorted(..., reverse=True): descending by key, equal keys in their
\* original order. SortedDesc(keys)[r] is the index of the r-th element.
RankDescTiesReversed(keys, i) ==
    1 + Cardinality({ j \in DOMAIN keys :
                        keys[j] > keys[i] \/ (keys[j] = keys[i] /\ j > i) })
RankDesc(keys, i) ==
    1 + Cardinality({ j \in DOMAIN keys :
                        keys[j] > keys[i] \/ (keys[j] = keys[i] /\ j < i) })
SortedDesc(keys) ==
    [r \in DOMAIN keys |-> CHOOSE i \in DOMAIN keys : RankDesc(keys, i) = r]

\* rerank_sources with the keyword extraction ext of the running process:
\* the ids of the retained sources in their new order.
RerankSources(web, tw, thr, query, ext) ==
    LET filtered == FilterSources(CombinedSources(web, tw), thr)
        scores == [i \in DOMAIN filtered |->
                      SourceScore(filtered[i], ext[filtered[i].id], query)]
        order == SortedDesc(scores)
    IN [r \in DOMAIN filtered |-> filtered[order[r]].id]

\* The injective sequences over a set: the orders in which a set of strings
\* can be iterated.
Orders(S) ==
    { o \in [1..Cardinality(S) -> S] :
        \A i, j \in 1..Cardinality(S) : i # j => o[i] # o[j] }

\* The themes dict (lines 258-281): one entry per keyword that more than one
\* source has, in the iteration order of all_keywords.
ThemeSources(ids, ext, kw) == { id \in ids : kw \in ext[id] }
ThemeKeys(ids, ext) ==
    { kw \in UNION { ext[id] : id \in ids } :
        Cardinality(ThemeSources(ids, ext, kw)) > 1 }
BuildThemes(ids, ext, order) ==
    [i \in DOMAIN order |->
        [key |-> order[i], sources |-> ThemeSources(ids, ext, order[i])]]

\* len(set(themes[t]) & set(sources)) / len(themes[t]) > 0.5
OverlapsAtLeastHalf(b, a) == 2 * Cardinality(b \cap a) >= Cardinality(b)
Overlaps(b, a) == 2 * Cardinality(b \cap a) > Cardinality(b)

\* The consolidation loop (lines 283-311) over a themes dict d, given as the
\* sequence of its entries. The themes are named by their index in d; the
\* result has one entry per consolidated theme: the theme it was built
\* around, the themes merged into it, and its sources.
RECURSIVE ConsolidateLoop(_, _, _, _)
ConsolidateLoop(d, todo, processed, out) ==
    IF todo = << >> THEN out
    ELSE LET theme == Head(todo)
         IN IF theme \in processed
              THEN ConsolidateLoop(d, Tail(todo), processed, out)
              ELSE LET overlapping ==
                           { t \in DOMAIN d :
                               /\ t # theme
                               /\ t \notin processed
                               /\ Overlaps(d[t].sources, d[theme].sources) }
                       consolidated ==
                           d[theme].sources
                              \cup UNION { d[t].sources : t \in overlapping }
                   IN ConsolidateLoop(d, Tail(todo),
                          processed \cup {theme} \cup overlapping,
                          Append(out, [leader |-> theme,
                                       merged |-> overlapping,
                                       sources |-> consolidated]))

Consolidate(d) ==
    ConsolidateLoop(d,
        SortedDesc([i \in DOMAIN d |-> Cardinality(d[i].sources)]), {}, << >>)

\* agent_count without the lower clamp.
AgentCountNoMinimum(theme_count) ==
    Min(MAX_SOURCE_AGENTS, (theme_count + 1) \div 2)

\* agent_count with theme_count // 2.
AgentCountRoundedDown(theme_count) ==
    Max(MIN_SOURCE_AGENTS, Min(MAX_SOURCE_AGENTS, theme_count \div 2))

\* agent_count of assign_source_agents
AgentCount(theme_count) ==
    Max(MIN_SOURCE_AGENTS, Min(MAX_SOURCE_AGENTS, (theme_count + 1) \div 2))

\* SourceAgent(agent_id=f"agent_{i+1}", assigned_sources=[], source_types=[],
\* priority=i+1). assigned_sources is kept as the sequence of the source
\* lists it was extended by (one per theme), themes holds the places of
\* these themes in thematic_clusters, load is current_theme_sizes.
EmptyAgents(n) ==
    [i \in 1..n |-> [assigned_sources |-> << >>, themes |-> << >>,
                     source_types |-> {}, priority |-> i, load |-> 0]]

\* min(current_theme_sizes.items(), key=lambda x: x[1])[0]: the first agent
\* with the smallest load.
LeastLoadedLatest(ags) ==
    CHOOSE i \in DOMAIN ags :
        \A j \in DOMAIN ags :
            ags[j].load > ags[i].load \/ (ags[j].load = ags[i].load /\ i >= j)
LeastLoaded(ags) ==
    CHOOSE i \in DOMAIN ags :
        \A j \in DOMAIN ags :
            ags[j].load > ags[i].load \/ (ags[j].load = ags[i].load /\ i <= j)

\* The assignment loop (lines 359-378).
RECURSIVE AssignLoop(_, _, _, _)
AssignLoop(clusters, todo, ags, types) ==
    IF todo = << >> THEN ags
    ELSE LET sources == clusters[Head(todo)].sources
             target == LeastLoaded(ags)
             updated ==
                 [ags EXCEPT
                    ![target].assigned_sources = Append(@, sources),
                    ![target].themes = Append(@, Head(todo)),
                    ![target].source_types =
                        @ \cup { types[id] : id \in sources \cap DOMAIN types },
                    ![target].load = @ + Cardinality(sources)]
         IN AssignLoop(clusters, Tail(todo), updated, types)

AssignSourceAgents(clusters, types) ==
    AssignLoop(clusters,
        SortedDesc([i \in DOMAIN clusters |-> Cardinality(clusters[i].sources)]),
        EmptyAgents(AgentCount(Len(clusters))), types)

\* The sources an agent was assigned.
AssignedSources(ag) == UNION Range(ag.assigned_sources)

\* ---- the source maps the model draws ----

SourceTypeAt(i) == IF i < NumSources THEN "web" ELSE "twitter"

\* NumSources sources, the last one from twitter.
WebPart(all) == SubSeq(all, 1, NumSources - 1)
TwitterPart(all) == SubSeq(all, NumSources, NumSources)

\* The keyword sets drawn for a source: at most two of the theme words.
KeywordSets == { S \in SUBSET ThemeWords : Cardinality(S) <= 2 }

\* Sources that all pass the threshold and differ in their keywords.
ThemeInputs ==
    { [i \in 1..NumSources |->
          Source(SourceNames[i], SourceTypeAt(i), 80, "high", kws[i], {})] :
      kws \in [1..NumSources -> KeywordSets] }

\* Sources below, at and above the thresholds, of two relevance classes, all
\* with the same keyword.
QualityLevels == {50, 60, 75}
Thresholds == {DEFAULT_QUALITY_THRESHOLD, 75}
QualityInputs ==
    { [i \in 1..NumSources |->
          Source(SourceNames[i], SourceTypeAt(i), qs[i], rels[i], {"x"}, {})] :
      qs \in [1..NumSources -> QualityLevels],
      rels \in [1..NumSources -> {"high", "medium"}] }

\* The six sources of the end-to-end scenario: four web sources of quality
\* 0.9, 0.75, 0.5, 0.65 and two twitter sources of quality 0.8, 0.3.
ScenarioWeb ==
    << Source("w1", "web", 90, "high", {"x"}, {}),
       Source("w2", "web", 75, "high", {"x"}, {}),
       Source("w3", "web", 50, "high", {"x"}, {}),
       Source("w4", "web", 65, "high", {"x"}, {}) >>
ScenarioTwitter ==
    << Source("t1", "twitter", 80, "high", {"x"}, {}),
       Source("t2", "twitter", 30, "high", {"x"}, {}) >>

\* A source with eleven distinct thematic keywords, six of them words of the
\* query, and a source with three.
ManyKeywords == {"k1", "k2", "k3", "k4", "k5", "k6", "k7", "k8", "k9"}
ManyTitleWords == {"k10", "k11"}
ManyQuery == {"k1", "k2", "k3", "k4", "k5", "k6"}
ManyWeb ==
    << Source("A", "web", 80, "high", ManyKeywords, ManyTitleWords),
       Source("B", "web", 90, "high", {"x", "y", "z"}, {}) >>

\* Five sources that share four keywords: the themes are p = {A, D, E},
\* q = {A, B}, r = {B, C}, s = {C, D}, none of which overlaps another by more
\* than half.
FourThemesWeb ==
    << Source("A", "web", 80, "high", {"p", "q"}, {}),
       Source("B", "web", 80, "high", {"q", "r"}, {}),
       Source("C", "web", 80, "high", {"r", "s"}, {}),
       Source("D", "web", 80, "high", {"s", "p"}, {}) >>
FourThemesTwitter ==
    << Source("E", "twitter", 80, "high", {"p"}, {}) >>

\* Router0_4(cleaned_web_sources, cleaned_twitter_sources, user_context,
\* quality_threshold)
Router0_4(web, tw, query, thr) ==
    /\ cleaned_web_sources = web
    /\ cleaned_twitter_sources = tw
    /\ refined_query = query
    /\ quality_threshold = thr
    /\ thematic = << >>
    /\ reranked_sources = << >>
    /\ themes = << >>
    /\ thematic_clusters = << >>
    /\ assigned_agents = << >>
    /\ second_run = << >>
    /\ r_pc = "init"

InitRouter ==
    /\ DirectorIdle
    /\ WriterIdle
    /\ AgentIdle
    /\ \/ \E all \in ThemeInputs :
             Router0_4(WebPart(all), TwitterPart(all), {},
                       DEFAULT_QUALITY_THRESHOLD)
       \/ \E all \in QualityInputs, thr \in Thresholds :
             Router0_4(WebPart(all), TwitterPart(all), {}, thr)
       \/ Router0_4(ScenarioWeb, ScenarioTwitter, {}, DEFAULT_QUALITY_THRESHOLD)
       \/ Router0_4(ManyWeb, << >>, ManyQuery, DEFAULT_QUALITY_THRESHOLD)
       \/ Router0_4(<< >>, << >>, {}, DEFAULT_QUALITY_THRESHOLD)
       \/ Router0_4(FourThemesWeb, FourThemesTwitter, {},
                    DEFAULT_QUALITY_THRESHOLD)

Combined == CombinedSources(cleaned_web_sources, cleaned_twitter_sources)

\* rerank_sources, in a process whose set order yields the extraction ext.
Rerank ==
    /\ r_pc = "init"
    /\ \E ext \in ExtractionMaps(Combined) :
          /\ thematic' = ext
          /\ reranked_sources' =
                RerankSources(cleaned_web_sources, cleaned_twitter_sources,
                              quality_threshold, refined_query, ext)
    /\ r_pc' = "reranked"
    /\ UNCHANGED <<cleaned_web_sources, cleaned_twitter_sources, refined_query,
                   quality_threshold, themes, thematic_clusters,
                   assigned_agents, second_run>>
    /\ UNCHANGED <<dirVars, writerVars, agentVars>>

\* _cluster_sources_by_theme; order is the iteration order of all_keywords.
Cluster ==
    /\ r_pc = "reranked"
    /\ \E order \in Orders(ThemeKeys(Range(reranked_sources), thematic)) :
          LET d == BuildThemes(Range(reranked_sources), thematic, order)
          IN /\ themes' = d
             /\ thematic_clusters' = Consolidate(d)
    /\ r_pc' = "clustered"
    /\ UNCHANGED <<cleaned_web_sources, cleaned_twitter_sources, refined_query,
                   quality_threshold, thematic, reranked_sources,
                   assigned_agents, second_run>>
    /\ UNCHANGED <<dirVars, writerVars, agentVars>>

\* assign_source_agents
Assign ==
    /\ r_pc = "clustered"
    /\ assigned_agents' =
          AssignSourceAgents(thematic_clusters,
              [id \in Range(reranked_sources) |->
                  ById(Combined, id).source_type])
    /\ r_pc' = "assigned"
    /\ UNCHANGED <<cleaned_web_sources, cleaned_twitter_sources, refined_query,
                   quality_threshold, thematic, reranked_sources, themes,
                   thematic_clusters, second_run>>
    /\ UNCHANGED <<dirVars, writerVars, agentVars>>

\* rerank_sources on the same router inputs in another process.
RerankAgain ==
    /\ r_pc = "assigned"
    /\ second_run = << >>
    /\ \E ext \in ExtractionMaps(Combined) :
          second_run' =
             << RerankSources(cleaned_web_sources, cleaned_twitter_sources,
                              quality_threshold, refined_query, ext) >>
    /\ UNCHANGED <<cleaned_web_sources, cleaned_twitter_sources, refined_query,
                   quality_threshold, thematic, reranked_sources, themes,
                   thematic_clusters, assigned_agents, r_pc>>
    /\ UNCHANGED <<dirVars, writerVars, agentVars>>

NextRouter == Rerank \/ Cluster \/ Assign \/ RerankAgain

SpecRouter == InitRouter /\ [][NextRouter]_vars

(***************************************************************************)
(* Router0_4: assign_source_agents over many themes                        *)
(***************************************************************************)

\* The most themes of a clustering.
MaxThemes == 32

\* n + 1 web sources, numbered 1..n+1, source i with the keywords i and
\* i + 1: keyword k is shared by the sources k - 1 and k, which gives the n
\* themes 2..n+1 of two sources each, and no theme overlaps another by more
\* than half.
ChainSources(n) ==
    [i \in 1..(n + 1) |-> Source(i, "web", 80, "high", {i, i + 1}, {})]
ChainOrder(n, ascending) ==
    [i \in 1..n |-> IF ascending THEN i + 1 ELSE n + 2 - i]

\* A router that has reranked and clustered the chain of n themes, the
\* keywords having been iterated in ascending or in descending order.
ClusteredChain(n, ascending) ==
    LET web == ChainSources(n)
        ext == [id \in Ids(web) |-> ById(web, id).keywords]
        reranked == RerankSources(web, << >>, DEFAULT_QUALITY_THRESHOLD, {}, ext)
        d == BuildThemes(Range(reranked), ext, ChainOrder(n, ascending))
    IN /\ cleaned_web_sources = web
       /\ cleaned_twitter_sources = << >>
       /\ refined_query = {}
       /\ quality_threshold = DEFAULT_QUALITY_THRESHOLD
       /\ thematic = ext
       /\ reranked_sources = reranked
       /\ themes = d
       /\ thematic_clusters = Consolidate(d)
       /\ assigned_agents = << >>
       /\ second_run = << >>
       /\ r_pc = "clustered"

InitManyThemes ==
    /\ DirectorIdle
    /\ WriterIdle
    /\ AgentIdle
    /\ \E n \in 0..MaxThemes, ascending \in BOOLEAN : ClusteredChain(n, ascending)

NextManyThemes == Assign

SpecManyThemes == InitManyThemes /\ [][NextManyThemes]_vars

(***************************************************************************)
(* Router0_4: properties                                                   *)
(***************************************************************************)

Reranked == r_pc # "init"
Clustered == r_pc \in {"clustered", "assigned"}
Assigned == r_pc = "assigned"

AgentsHolding(id) ==
    { i \in DOMAIN assigned_agents : id \in AssignedSources(assigned_agents[i]) }

\* C4: after assign_source_agents the union of the agents' assigned sources
\* is the union of the cluster source lists, and no source id is assigned to
\* two different agents.
C4_AssignedPartitionClusters ==
    Assigned =>
       /\ UNION { AssignedSources(assigned_agents[i]) : i \in DOMAIN assigned_agents }
             = UNION { thematic_clusters[j].sources : j \in DOMAIN thematic_clusters }
       /\ \A i, j \in DOMAIN assigned_agents :
             i # j => AssignedSources(assigned_agents[i])
                         \cap AssignedSources(assigned_agents[j]) = {}

\* C5: after one rerank -> cluster -> assign pass every source that survived
\* reranking belongs to exactly one agent.
C5_EverySourceOneAgent ==
    Assigned =>
       \A id \in Range(reranked_sources) : Cardinality(AgentsHolding(id)) = 1

IsScenario ==
    /\ cleaned_web_sources = ScenarioWeb
    /\ cleaned_twitter_sources = ScenarioTwitter
    /\ quality_threshold = 60

\* C6: the keys of rerank_sources' output are exactly the input sources
\* whose quality_score is >= the threshold (each once); in the six-source
\* scenario with threshold 0.6 four sources are retained.
C6_RerankKeepsAtOrAboveThreshold ==
    Reranked =>
       /\ Range(reranked_sources) =
             { Combined[i].id : i \in
                 { k \in DOMAIN Combined :
                     Combined[k].quality_score >= quality_threshold } }
       /\ Len(reranked_sources) = Cardinality(Range(reranked_sources))
       /\ IsScenario => Len(reranked_sources) = 4

\* C6 witness: the scenario was reranked; w3 (0.5) and t2 (0.3) are dropped,
\* w4 (0.65) is kept.
C6_Witness ==
    /\ Reranked
    /\ IsScenario
    /\ Range(reranked_sources) = {"w1", "w2", "w4", "t1"}

\* C7: two runs of rerank_sources on identical inputs produce the same
\* sources in the same order.
C7_RerankDeterministic ==
    second_run # << >> => second_run[1] = reranked_sources

\* The size of the k-th theme of thematic_clusters, and whether theme j comes
\* before theme k when the themes are taken in descending size, themes of
\* equal size in their order in thematic_clusters.
ClusterSize(k) == Cardinality(thematic_clusters[k].sources)
TakenBefore(j, k) ==
    \/ ClusterSize(j) > ClusterSize(k)
    \/ ClusterSize(j) = ClusterSize(k) /\ j < k

\* The agents that were given theme k, and the number of sources agent i
\* had been assigned when theme k was up.
HoldersOf(k) ==
    { i \in DOMAIN assigned_agents : k \in Range(assigned_agents[i].themes) }
CountBefore(i, k) ==
    Cardinality({ <<j, id>> \in
                    (Range(assigned_agents[i].themes) \X Range(reranked_sources)) :
                    TakenBefore(j, k) /\ id \in thematic_clusters[j].sources })

\* C27: assign_source_agents takes the themes in descending size and gives
\* each whole theme to the agent whose cumulative assigned-source count is
\* smallest at that moment, the earliest-created agent winning ties; the
\* sources of one theme are never split across two agents.
C27_WholeThemeToLeastLoaded ==
    Assigned =>
       /\ \A k \in DOMAIN thematic_clusters :
             /\ Cardinality(HoldersOf(k)) = 1
             /\ \A h \in HoldersOf(k), i \in DOMAIN assigned_agents :
                   \/ CountBefore(h, k) < CountBefore(i, k)
                   \/ CountBefore(h, k) = CountBefore(i, k) /\ h <= i
       /\ \A i \in DOMAIN assigned_agents :
             LET ag == assigned_agents[i]
             IN /\ ag.assigned_sources =
                      [n \in DOMAIN ag.themes |->
                          thematic_clusters[ag.themes[n]].sources]
                /\ \A m, n \in DOMAIN ag.themes :
                      m < n => TakenBefore(ag.themes[m], ag.themes[n])

\* C27 witness: a theme went to an agent that already held sources, while
\* another agent held more.
C27_Witness ==
    /\ Assigned
    /\ \E k \in DOMAIN thematic_clusters :
       \E h \in HoldersOf(k), i \in DOMAIN assigned_agents :
          /\ CountBefore(h, k) > 0
          /\ CountBefore(i, k) > CountBefore(h, k)

\* C28: for every theme count n >= 0, assign_source_agents creates exactly
\* clamp(ceil(n/2), 3, 15) agents, with priorities 1..count in creation
\* order.
C28_AgentCountClamped ==
    Assigned =>
       LET n == Len(thematic_clusters)
           count == Len(assigned_agents)
       IN /\ \E c \in 0..n :
                /\ 2 * c >= n
                /\ 2 * c < n + 2
                /\ count = IF c < 3 THEN 3 ELSE IF c > 15 THEN 15 ELSE c
          /\ \A i \in 1..count : assigned_agents[i].priority = i

\* C28 witness: an assignment over an odd number of themes between the
\* clamps: seven themes, four agents.
C28_Witness ==
    /\ Assigned
    /\ Len(thematic_clusters) = 7
    /\ Len(assigned_agents) = 4

\* The score rerank_sources computed for a retained source, and the place of
\* the source in the combined (web then twitter) input map.
ScoreOf(id) == SourceScore(ById(Combined, id), thematic[id], refined_query)
PlaceOf(id) == CHOOSE i \in DOMAIN Combined : Combined[i].id = id

\* C22: rerank_sources orders the retained sources by non-increasing score
\* 0.6*relevance_numeric + 0.3*quality_score + 0.1*diversity_score, and two
\* sources of equal score keep their relative order of the combined (web
\* then twitter) input map.
C22_RerankOrderStable ==
    Reranked =>
       \A r, q \in DOMAIN reranked_sources :
          r < q =>
             \/ ScoreOf(reranked_sources[r]) > ScoreOf(reranked_sources[q])
             \/ /\ ScoreOf(reranked_sources[r]) = ScoreOf(reranked_sources[q])
                /\ PlaceOf(reranked_sources[r]) < PlaceOf(reranked_sources[q])

\* C22 witness: a rerank that moved a source ahead of one inserted before
\* it, and kept two sources of equal score, a web and a twitter one, in
\* their input order.
C22_Witness ==
    /\ Reranked
    /\ \E r, q \in DOMAIN reranked_sources :
          /\ r < q
          /\ ScoreOf(reranked_sources[r]) > ScoreOf(reranked_sources[q])
          /\ PlaceOf(reranked_sources[r]) > PlaceOf(reranked_sources[q])
    /\ \E r, q \in DOMAIN reranked_sources :
          /\ r < q
          /\ ScoreOf(reranked_sources[r]) = ScoreOf(reranked_sources[q])
          /\ ById(Combined, reranked_sources[r]).source_type = "web"
          /\ ById(Combined, reranked_sources[q]).source_type = "twitter"

ClusterSizes == [i \in DOMAIN thematic_clusters |->
                    Cardinality(thematic_clusters[i].sources)]

\* C8: the merge step applied to the consolidated themes merges nothing: no
\* consolidated theme has more than half of its sources inside a
\* consolidated theme that is processed before it.
C8_ConsolidationIdempotent ==
    Clustered =>
       /\ \A i, j \in DOMAIN thematic_clusters :
             RankDesc(ClusterSizes, i) < RankDesc(ClusterSizes, j) =>
                2 * Cardinality(thematic_clusters[j].sources
                                   \cap thematic_clusters[i].sources)
                   <= Cardinality(thematic_clusters[j].sources)
       /\ \A k \in DOMAIN Consolidate(thematic_clusters) :
             Consolidate(thematic_clusters)[k].merged = {}

\* The themes consumed by the first k consolidated themes.
ConsumedBy(k) ==
    UNION { {thematic_clusters[j].leader} \cup thematic_clusters[j].merged :
            j \in 1..k }

ThemeSize(t) == Cardinality(themes[t].sources)

\* C9: the consolidated themes are built around the largest theme not yet
\* consumed; a theme B not yet consumed is merged into the current theme A
\* exactly when more than half of B's sources are sources of A; the
\* consolidated source set is the union of A and the merged themes; a merged
\* theme is never an output theme of its own. Themes {A,B,C} and {B,C,D}
\* give one theme covering {A,B,C,D}.
C9_MergeRule ==
    Clustered =>
       /\ \A k \in DOMAIN thematic_clusters :
             LET A == thematic_clusters[k].leader
                 M == thematic_clusters[k].merged
                 rest == (DOMAIN themes) \ ConsumedBy(k - 1)
             IN /\ A \in rest
                /\ \A t \in rest : ThemeSize(t) <= ThemeSize(A)
                /\ M \subseteq rest \ {A}
                /\ \A B \in rest \ {A} :
                      B \in M <=>
                         2 * Cardinality(themes[B].sources \cap themes[A].sources)
                            > Cardinality(themes[B].sources)
                /\ thematic_clusters[k].sources =
                      themes[A].sources \cup UNION { themes[B].sources : B \in M }
       /\ ConsumedBy(Len(thematic_clusters)) = DOMAIN themes
       /\ \A j, k \in DOMAIN thematic_clusters :
             thematic_clusters[j].leader \notin thematic_clusters[k].merged
       /\ { themes[t].sources : t \in DOMAIN themes }
             = { {"A", "B", "C"}, {"B", "C", "D"} } /\ Len(themes) = 2
          => /\ Len(thematic_clusters) = 1
             /\ thematic_clusters[1].sources = {"A", "B", "C", "D"}

\* C9 witness: themes {A,B,C} and {B,C,D} were consolidated into one theme
\* covering {A,B,C,D}.
C9_Witness ==
    /\ Clustered
    /\ Len(themes) = 2
    /\ { themes[t].sources : t \in DOMAIN themes }
          = { {"A", "B", "C"}, {"B", "C", "D"} }
    /\ Len(thematic_clusters) = 1
    /\ thematic_clusters[1].merged # {}
    /\ thematic_clusters[1].sources = {"A", "B", "C", "D"}

EmptySourceMap == cleaned_web_sources = << >> /\ cleaned_twitter_sources = << >>

\* C19 as stated: with an empty source map rerank, cluster and assign raise
\* no error and the reranked sources, the thematic clusters and the agent
\* assignments are all empty.
C19_EmptyInputEmptyOutputs ==
    (EmptySourceMap /\ Assigned) =>
       /\ reranked_sources = << >>
       /\ thematic_clusters = << >>
       /\ assigned_agents = << >>

\* C19 amended: with an empty source map every step can run, the reranked
\* sources and the thematic clusters are empty, and assign_source_agents
\* returns MIN_SOURCE_AGENTS agents none of which has a source or a source
\* type assigned.
C19_EmptyInputIdleAgents ==
    EmptySourceMap =>
       /\ r_pc = "init" => ENABLED Rerank
       /\ r_pc = "reranked" => ENABLED Cluster
       /\ r_pc = "clustered" => ENABLED Assign
       /\ Reranked => reranked_sources = << >>
       /\ Clustered => thematic_clusters = << >>
       /\ Assigned =>
             /\ Len(assigned_agents) = MIN_SOURCE_AGENTS
             /\ \A i \in DOMAIN assigned_agents :
                   /\ assigned_agents[i].assigned_sources = << >>
                   /\ assigned_agents[i].source_types = {}
                   /\ assigned_agents[i].priority = i

\* C19 witness: the three steps ran on an empty source map and left three
\* idle agents.
C19_Witness ==
    /\ EmptySourceMap
    /\ Assigned
    /\ Len(assigned_agents) = 3
    /\ AssignedSources(assigned_agents[1]) = {}

(***************************************************************************)
(* Writer                                                                  *)
(***************************************************************************)

\* max_iterations = 5
max_iterations == 5

\* The most sources of a WriterRequest, and the most requests handed to one
\* _coordinate_source_agents call.
MaxGaps == 2

\* The methods generate_draft calls on self that class Writer does not
\* define. A call of one of them raises AttributeError unless the method was
\* bound to the instance before the call.
UndefinedHelpers == {"_log_reasoning", "_parse_draft_content", "_iterate_draft"}

\* What one _evaluate_draft call returns: the evaluator's verdict, or the
\* fallback evaluation when the call or the parsing of its answer fails.
HighScores == [coverage |-> 85, depth |-> 75, coherence |-> 80, citation |-> 95]
LowScores == [coverage |-> 85, depth |-> 75, coherence |-> 80, citation |-> 90]
EvaluationResults ==
    { [scores |-> HighScores, meets_threshold |-> TRUE,
       improvements_needed |-> << >>],
      [scores |-> LowScores, meets_threshold |-> TRUE,
       improvements_needed |-> <<"polish">>],
      [scores |-> HighScores, meets_threshold |-> FALSE,
       improvements_needed |-> <<"add citations">>],
      [scores |-> ZeroScores, meets_threshold |-> FALSE,
       improvements_needed |-> <<"Error in evaluation">>] }

\* QUALITY_THRESHOLDS, in hundredths, and whether all four scores of an
\* evaluation exceed them.
QUALITY_THRESHOLDS ==
    [coverage |-> 80, depth |-> 70, coherence |-> 75, citation |-> 90]
ScoresExceed(scores) ==
    /\ scores.coverage > QUALITY_THRESHOLDS.coverage
    /\ scores.depth > QUALITY_THRESHOLDS.depth
    /\ scores.coherence > QUALITY_THRESHOLDS.coherence
    /\ scores.citation > QUALITY_THRESHOLDS.citation

\* Writer(), with the helpers a caller bound to the instance, and a
\* completion service that answers the draft synthesis call or fails it.
InitWriter ==
    /\ DirectorIdle
    /\ RouterIdle
    /\ AgentIdle
    /\ w_methods \in SUBSET UndefinedHelpers
    /\ synthesis_fails \in BOOLEAN
    /\ w_sources \in 0..MaxGaps
    /\ clarification_requests = 0
    /\ agent_requests = << >>
    /\ current_draft = "None"
    /\ iteration = 0
    /\ evaluation = NoEvaluation
    /\ evaluations = << >>
    /\ iterate_calls = 0
    /\ response = NoResponse
    /\ w_pc = "idle"

\* generate_draft up to the first _log_reasoning call (lines 525-554).
BeginGenerateDraft ==
    /\ w_pc = "idle"
    /\ w_pc' = IF "_log_reasoning" \in w_methods THEN "explore" ELSE "raised"
    /\ UNCHANGED <<w_methods, clarification_requests, current_draft, iteration,
                   evaluation, evaluations, iterate_calls, response>>
    /\ UNCHANGED <<synthesis_fails, w_sources, agent_requests>>
    /\ UNCHANGED <<dirVars, routerVars, agentVars>>

\* _explore_sources. _analyze_source formats SOURCE_EXPLORATION_PROMPT, whose
\* JSON example holds literal braces, so str.format raises KeyError before
\* the try block for every source: with a source the gather and the call
\* raise, without one there is no analysis, self.knowledge_gaps is empty and
\* phase 2 is skipped.
ExploreSources ==
    /\ w_pc = "explore"
    /\ w_pc' = IF w_sources > 0 THEN "raised" ELSE "draft"
    /\ UNCHANGED <<w_methods, clarification_requests, current_draft, iteration,
                   evaluation, evaluations, iterate_calls, response>>
    /\ UNCHANGED <<synthesis_fails, w_sources, agent_requests>>
    /\ UNCHANGED <<dirVars, routerVars, agentVars>>

\* The agents named in request.source_agents, and the priorities of the
\* handoff requests.
WriterAgents == {"agent_1", "agent_2"}
Priorities == {1, 2}

\* sorted(requests, key=lambda r: r.priority): ascending, equal priorities in
\* their original order.
SortedByPriority(requests) ==
    LET order == SortedDesc([i \in DOMAIN requests |-> 0 - requests[i].priority])
    IN [r \in DOMAIN requests |-> requests[order[r]]]

\* The requests of agent a: those whose source is one of a's assigned
\* sources, in the order of clarification_requests.
RequestsOf(a, n, owner, priority) ==
    SelectSeq([g \in 1..n |->
                  [gap |-> g, owner |-> owner[g], priority |-> priority[g]]],
              LAMBDA r : r.owner = a)

\* _coordinate_source_agents(clarification_requests) up to the gather, called
\* on a writer whose source_agent_states are set. The requests are grouped
\* by the agent that owns their source; a request whose source no agent
\* owns (owner "none") is dropped. One process_agent_requests per agent is
\* started.
CoordinateSourceAgents ==
    /\ w_pc = "idle"
    /\ \E n \in 1..MaxGaps :
       \E owner \in [1..n -> WriterAgents \cup {"none"}],
          priority \in [1..n -> Priorities] :
          /\ clarification_requests' = n
          /\ agent_requests' =
                [a \in { owner[g] : g \in 1..n } \ {"none"} |->
                    [requests |-> RequestsOf(a, n, owner, priority),
                     sent |-> << >>, issued |-> 0, stored |-> 0,
                     state |-> "running"]]
    /\ w_pc' = "clarifying"
    /\ UNCHANGED <<w_methods, synthesis_fails, w_sources, current_draft,
                   iteration, evaluation, evaluations, iterate_calls, response>>
    /\ UNCHANGED <<dirVars, routerVars, agentVars>>

\* self.source_director.get_clarification({...}): the writer passes a dict,
\* and get_clarification reads request.agent_id, which a dict does not have.
RequestPassed == "dict"
DirectorCallRaises(request_type) == request_type # "DirectorRequest"

\* process_agent_requests sends the next request of agent a, in priority
\* order. The whole loop is inside one try: an exception ends the loop.
ProcessAgentRequest(a) ==
    /\ w_pc = "clarifying"
    /\ a \in DOMAIN agent_requests
    /\ agent_requests[a].state = "running"
    /\ LET b == agent_requests[a]
           sorted == SortedByPriority(b.requests)
           issued == b.issued + 1
       IN /\ issued <= Len(sorted)
          /\ agent_requests' =
                [agent_requests EXCEPT ![a] =
                    IF DirectorCallRaises(RequestPassed)
                      THEN [b EXCEPT !.sent = Append(@, sorted[issued]),
                                     !.issued = issued,
                                     !.state = "aborted"]
                      ELSE [b EXCEPT !.sent = Append(@, sorted[issued]),
                                     !.issued = issued,
                                     !.stored = @ + 1,
                                     !.state = IF issued = Len(sorted)
                                                 THEN "finished" ELSE "running"]]
    /\ UNCHANGED <<w_methods, synthesis_fails, w_sources,
                   clarification_requests, current_draft,
                   iteration, evaluation, evaluations, iterate_calls, response,
                   w_pc>>
    /\ UNCHANGED <<dirVars, routerVars, agentVars>>

\* The gather of _coordinate_source_agents returns: every
\* process_agent_requests has ended.
CoordinateReturn ==
    /\ w_pc = "clarifying"
    /\ \A a \in DOMAIN agent_requests : agent_requests[a].state # "running"
    /\ w_pc' = "coordinated"
    /\ UNCHANGED <<w_methods, synthesis_fails, w_sources,
                   clarification_requests, agent_requests,
                   current_draft, iteration, evaluation, evaluations,
                   iterate_calls, response>>
    /\ UNCHANGED <<dirVars, routerVars, agentVars>>

\* Phase 3: the synthesis call answers or fails; an answer is parsed by
\* _parse_draft_content; every exception gives the placeholder draft. Then
\* iteration = 0 and evaluation = None.
InitialDraft ==
    /\ w_pc = "draft"
    /\ current_draft' =
          IF ~synthesis_fails /\ "_parse_draft_content" \in w_methods
            THEN "parsed" ELSE "placeholder"
    /\ iteration' = 0
    /\ evaluation' = NoEvaluation
    /\ w_pc' = "loop"
    /\ UNCHANGED <<w_methods, clarification_requests, evaluations, iterate_calls,
                   response>>
    /\ UNCHANGED <<synthesis_fails, w_sources, agent_requests>>
    /\ UNCHANGED <<dirVars, routerVars, agentVars>>

\* while iteration < max_iterations
LoopContinuesOnceMore(i) == i <= max_iterations
LoopContinues(i) == i < max_iterations

\* if evaluation.meets_threshold: break
BreaksOnScores(e) == e.meets_threshold \/ ScoresExceed(e.scores)
Breaks(e) == e.meets_threshold

\* evaluation = await self._evaluate_draft(current_draft), and the break.
EvaluateDraft ==
    /\ w_pc = "loop"
    /\ LoopContinues(iteration)
    /\ \E e \in EvaluationResults :
          /\ evaluation' = e
          /\ evaluations' = Append(evaluations, e.meets_threshold)
          /\ w_pc' = IF Breaks(e) THEN "return" ELSE "revise"
    /\ UNCHANGED <<w_methods, clarification_requests, current_draft, iteration,
                   iterate_calls, response>>
    /\ UNCHANGED <<synthesis_fails, w_sources, agent_requests>>
    /\ UNCHANGED <<dirVars, routerVars, agentVars>>

\* current_draft = await self._iterate_draft(current_draft); iteration += 1
IterateDraft ==
    /\ w_pc = "revise"
    /\ IF "_iterate_draft" \in w_methods
         THEN /\ iterate_calls' = iterate_calls + 1
              /\ current_draft' = "revised"
              /\ iteration' = iteration + 1
              /\ w_pc' = "loop"
         ELSE /\ w_pc' = "raised"
              /\ UNCHANGED <<iterate_calls, current_draft, iteration>>
    /\ UNCHANGED <<w_methods, clarification_requests, evaluation, evaluations,
                   response>>
    /\ UNCHANGED <<synthesis_fails, w_sources, agent_requests>>
    /\ UNCHANGED <<dirVars, routerVars, agentVars>>

\* return WriterResponse(...), after the break or when the loop test fails.
ReturnResponse ==
    /\ \/ w_pc = "return"
       \/ w_pc = "loop" /\ ~LoopContinues(iteration)
    /\ response' =
          [report_draft |-> current_draft,
           suggested_improvements |->
              IF evaluation # NoEvaluation /\ ~evaluation.meets_threshold
                THEN evaluation.improvements_needed ELSE << >>]
    /\ w_pc' = "returned"
    /\ UNCHANGED <<w_methods, clarification_requests, current_draft, iteration,
                   evaluation, evaluations, iterate_calls>>
    /\ UNCHANGED <<synthesis_fails, w_sources, agent_requests>>
    /\ UNCHANGED <<dirVars, routerVars, agentVars>>

NextWriter ==
    \/ BeginGenerateDraft
    \/ ExploreSources
    \/ CoordinateSourceAgents
    \/ \E a \in WriterAgents : ProcessAgentRequest(a)
    \/ CoordinateReturn
    \/ InitialDraft
    \/ EvaluateDraft
    \/ IterateDraft
    \/ ReturnResponse

SpecWriter == InitWriter /\ [][NextWriter]_vars

(***************************************************************************)
(* initialize_writing_pipeline and execute_writing_pipeline                *)
(***************************************************************************)

\* self.source_director = SourceDirector() in Writer.__init__: the writer
\* makes a Director of its own. No code registers an agent on it, so its
\* agents are those of SourceDirector.__init__.
WriterDirectorAgents == {}

\* The "Validate request" block of get_clarification on the Director of the
\* writer.
WriterDirectorValidate(r) == r.agent_id \in WriterDirectorAgents

\* initialize_writing_pipeline registers the agents on its director before
\* execute_writing_pipeline calls generate_draft.
PipelineRegister ==
    /\ w_pc = "idle"
    /\ Register

NextPipeline ==
    \/ PipelineRegister
    \/ NextWriter

SpecPipeline == InitWriter /\ [][NextPipeline]_vars

(***************************************************************************)
(* Writer: properties                                                      *)
(***************************************************************************)

GenerateDraftOver == w_pc \in {"returned", "raised"}

NoEvaluationMet == \A i \in DOMAIN evaluations : ~evaluations[i]

\* C2: when every evaluation returns meets_threshold = false, generate_draft
\* makes exactly five _iterate_draft calls, never a sixth, and then returns
\* a response.
C2_FiveRevisionsThenResponse ==
    /\ iterate_calls <= max_iterations
    /\ GenerateDraftOver /\ NoEvaluationMet =>
          /\ w_pc = "returned"
          /\ response # NoResponse
          /\ iterate_calls = max_iterations

\* The states of generate_draft after the initial draft is set.
AfterInitialDraft == w_pc \in {"loop", "revise", "return", "returned"}

\* C17: when the draft synthesis call fails, generate_draft does not fail:
\* it goes on with the placeholder draft, and the placeholder is evaluated
\* and, when the evaluation does not meet the threshold, revised by the loop
\* before a response is returned.
C17_FailedSynthesisGivesPlaceholder ==
    synthesis_fails =>
       /\ w_pc # "raised"
       /\ AfterInitialDraft /\ iterate_calls = 0 => current_draft = "placeholder"
       /\ w_pc = "returned" =>
             /\ evaluations # << >>
             /\ ~evaluations[1] => iterate_calls >= 1

\* C18: a failed clarification request never aborts the batch: a
\* process_agent_requests ends only after every request of its agent was
\* issued, and the gather returns only after every request of every agent
\* was issued.
C18_FailedRequestKeepsBatch ==
    \A a \in DOMAIN agent_requests :
       LET b == agent_requests[a]
       IN (b.state # "running" \/ w_pc \notin {"clarify", "clarifying"}) =>
             b.issued = Len(b.requests)

\* C20: generate_draft ends by returning the final draft, with an empty
\* improvement list when the last evaluation met the threshold and with that
\* evaluation's improvements_needed when it did not.
C20_ResponseCarriesLastEvaluation ==
    GenerateDraftOver =>
       /\ w_pc = "returned"
       /\ response # NoResponse
       /\ response.report_draft = current_draft
       /\ evaluations # << >>
       /\ response.suggested_improvements =
             IF evaluations[Len(evaluations)]
               THEN << >> ELSE evaluation.improvements_needed

\* C35: the Director the writer sends its clarification requests through
\* has the agents that initialize_writing_pipeline registered, so that a
\* request for a registered (agent, source) pair passes its validation and
\* reaches the agent.
C35_WriterUsesPipelineDirector ==
    /\ WriterDirectorAgents = agents
    /\ \A r \in ReqChoices : Validate(r) => WriterDirectorValidate(r)

C25_BatchInPriorityOrder ==
    \A a \in DOMAIN agent_requests :
       LET b == agent_requests[a]
       IN b.state # "running" =>
             /\ Len(b.sent) = Len(b.requests)
             /\ Range(b.sent) = Range(b.requests)
             /\ \A i, j \in DOMAIN b.sent :
                   i < j => b.sent[i].priority <= b.sent[j].priority

\* The requests that were sent to the director.
SentGaps ==
    UNION { { agent_requests[a].sent[i].gap :
                i \in DOMAIN agent_requests[a].sent } :
            a \in DOMAIN agent_requests }

\* C26: every knowledge gap flagged during source exploration is converted
\* into a clarification request, grouped under the owning agent and
\* submitted to the director: when generate_draft is over for a request
\* whose sources each hold one gap to flag, a request was sent for each.
C26_EveryGapRequested ==
    GenerateDraftOver => \A g \in 1..w_sources : g \in SentGaps

\* The positions of generate_draft, and the steps between its phases:
\* explore sources, (request clarifications,) initial draft,
\* (evaluate, revise)*, done.
DraftPhases == {"explore", "draft", "loop", "revise", "return", "returned"}
PhaseSteps ==
    { <<"idle", "explore">>, <<"explore", "draft">>, <<"draft", "loop">>,
      <<"loop", "revise">>, <<"revise", "loop">>,
      <<"loop", "return">>, <<"loop", "returned">>, <<"return", "returned">> }

BatchesFinished ==
    \A a \in DOMAIN agent_requests : agent_requests[a].state # "running"

NumUrls == 2

\* source_id = f"source_{i}" for the i-th url (i from 0).
SourceIdOf == <<"source_0", "source_1", "source_2", "source_3">>
AgentSourceIds == { SourceIdOf[i] : i \in 1..NumUrls }

Queries == {"q1", "q2"}

\* The texts the completion service answers with.
Texts == {"a1", "a2"}

\* self.confidence_thresholds["clarification"] = 0.75, in hundredths
ClarificationThreshold == 75

\* How the verification ends: the call fails, its answer is not JSON, or the
\* JSON gives a confidence (0 when it has none), in hundredths.
Confidences == {50, 75}
VerifyOutcomes ==
    { [kind |-> "fail", confidence |-> 0],
      [kind |-> "malformed", confidence |-> 0] }
    \cup { [kind |-> "scored", confidence |-> c] : c \in Confidences }

\* cache_key = f"{source_id}:{query}". The source ids are source_<i> and hold
\* no colon, so the key splits back into the pair at its first colon.
CacheKey(source_id, query) == <<source_id, ":", query>>

\* What get_clarification returns without an answer.
NotFoundText == "Source not found"
ErrorText == "Error clarifying source"

\* except Exception in process_all_sources: continue
AbortAfterFailure == FALSE
ContinueAfterFailure == TRUE

\* How the completion-service calls of one process_source call end: with a
\* usable answer or with a failure (the call raises or its answer does not
\* parse); the answer for the quotes holds quotes or is an empty object.
PlanOutcomes == {"plan", "fail"}
QuoteOutcomes == {"quotes", "empty", "fail"}
InsightOutcomes == {"insights", "fail"}
SummaryOutcomes == {"summary", "fail"}

\* extract_source_content(url) returns f"Sample content from {url}".
Contents == {"Sample content"}

\* _plan_exploration: except Exception: return ExplorationPlan("unknown", ...)
PlanExploration(outcome) == IF outcome = "fail" THEN "fallback" ELSE "ok"

\* _extract_quotes: except Exception: return {}
ExtractQuotes(outcome) ==
    CASE outcome = "fail" -> "fallback"
      [] outcome = "empty" -> "empty"
      [] OTHER -> "some"

\* _identify_insights: its prompt holds json.dumps(quotes), built before the
\* try, and the quotes are ProcessedQuote objects, which json cannot
\* serialise: with any quote the method raises TypeError. Otherwise
\* except Exception: return []
IdentifyInsightsRaises(quotes, outcome) ==
    IF quotes = "some" \/ outcome = "fail" THEN "raised" ELSE "ok"
IdentifyInsights(quotes, outcome) ==
    IF quotes = "some" THEN "raised"
    ELSE IF outcome = "fail" THEN "fallback" ELSE "ok"

\* The body of process_source: the steps one after the other; an exception
\* that reaches the except of process_source is raised again. failed holds
\* the steps whose completion-service call was made and failed.
ProcessSource(content, planned, quoted, insighted, summarised) ==
    IF content = ""
      THEN [plan |-> "skipped", quotes |-> "skipped", insights |-> "skipped",
            summary |-> "skipped", failed |-> {"content"}, raised |-> TRUE]
    ELSE LET plan == PlanExploration(planned)
             quotes == ExtractQuotes(quoted)
             insights == IdentifyInsights(quotes, insighted)
             failed == { step \in {"plan", "quotes", "insights"} :
                           \/ step = "plan" /\ planned = "fail"
                           \/ step = "quotes" /\ quoted = "fail"
                           \/ /\ step = "insights"
                              /\ quotes # "some"
                              /\ insighted = "fail" }
         IN IF insights = "raised"
              THEN [plan |-> plan, quotes |-> quotes, insights |-> insights,
                    summary |-> "skipped", failed |-> failed, raised |-> TRUE]
            ELSE IF summarised = "fail"
              THEN [plan |-> plan, quotes |-> quotes, insights |-> insights,
                    summary |-> "failed", failed |-> failed \cup {"summary"},
                    raised |-> TRUE]
            ELSE [plan |-> plan, quotes |-> quotes, insights |-> insights,
                  summary |-> "ok", failed |-> failed, raised |-> FALSE]

\* One round of the loop of process_all_sources: process_source for the next
\* url succeeds (the source is stored in processed_sources and in results)
\* or raises (the exception is caught and the loop goes on).
ProcessNextSource ==
    /\ ps_pc \in {"idle", "running"}
    /\ Len(ps_attempted) < NumUrls
    /\ LET source_id == SourceIdOf[Len(ps_attempted) + 1]
       IN \E content \in Contents, planned \in PlanOutcomes,
             quoted \in QuoteOutcomes, insighted \in InsightOutcomes,
             summarised \in SummaryOutcomes :
             LET steps == ProcessSource(content, planned, quoted, insighted,
                                        summarised)
                 succeeded == ~steps.raised
             IN /\ ps_steps' = steps
                /\ ps_attempted' = Append(ps_attempted,
                       [source_id |-> source_id, succeeded |-> succeeded])
                /\ IF succeeded
                     THEN /\ processed_sources' = processed_sources \cup {source_id}
                          /\ ps_results' = ps_results \cup {source_id}
                          /\ ps_pc' = "running"
                     ELSE /\ UNCHANGED <<processed_sources, ps_results>>
                          /\ ps_pc' = IF ContinueAfterFailure
                                        THEN "running" ELSE "raised"
    /\ UNCHANGED <<clarification_cache, c_pc, c_req, c_text, c_verified,
                   c_calls, c_result>>
    /\ UNCHANGED <<dirVars, routerVars, writerVars>>

\* return results
ProcessAllReturn ==
    /\ ps_pc \in {"idle", "running"}
    /\ Len(ps_attempted) = NumUrls
    /\ ps_pc' = "returned"
    /\ ps_steps' = NoSteps
    /\ UNCHANGED <<processed_sources, clarification_cache, ps_attempted,
                   ps_results, c_pc, c_req, c_text, c_verified, c_calls,
                   c_result>>
    /\ UNCHANGED <<dirVars, routerVars, writerVars>>

\* get_clarification(query, source_id) up to its first await: the source
\* check, the cache lookup, and the call of the completion service for the
\* answer. The agent is asked once process_all_sources has returned.
\* What the call does for a source that is not in processed_sources.
RaiseSourceNotFound(t) ==
    /\ c_pc' = [c_pc EXCEPT ![t] = "raised"]
    /\ c_result' = [c_result EXCEPT ![t] = "SourceNotFoundError"]

ReturnNotFound(t) ==
    /\ c_pc' = [c_pc EXCEPT ![t] = "done"]
    /\ c_result' = [c_result EXCEPT ![t] = NotFoundText]

StartClarification(t, source_id, query) ==
    /\ c_pc[t] = "new"
    /\ ps_pc = "returned"
    /\ \A u \in Calls : u < t => c_pc[u] # "new"
    /\ c_req' = [c_req EXCEPT ![t] = [source_id |-> source_id, query |-> query]]
    /\ IF source_id \notin processed_sources
         THEN /\ ReturnNotFound(t)
              /\ UNCHANGED c_calls
         ELSE IF CacheKey(source_id, query) \in DOMAIN clarification_cache
           THEN /\ c_pc' = [c_pc EXCEPT ![t] = "done"]
                /\ c_result' = [c_result EXCEPT ![t] =
                      clarification_cache[CacheKey(source_id, query)].response]
                /\ UNCHANGED c_calls
           ELSE /\ c_pc' = [c_pc EXCEPT ![t] = "answering"]
                /\ c_calls' = [c_calls EXCEPT ![t] = 1]
                /\ UNCHANGED c_result
    /\ UNCHANGED <<processed_sources, clarification_cache, ps_attempted,
                   ps_results, ps_steps, ps_pc, c_text, c_verified>>
    /\ UNCHANGED <<dirVars, routerVars, writerVars>>

\* The except branch of get_clarification.
FailureRaises(t) ==
    /\ c_pc' = [c_pc EXCEPT ![t] = "raised"]
    /\ c_result' = [c_result EXCEPT ![t] = "Exception"]

FailureReturnsText(t) ==
    /\ c_pc' = [c_pc EXCEPT ![t] = "done"]
    /\ c_result' = [c_result EXCEPT ![t] = ErrorText]

\* The completion call for the answer ends: with a text, and the call for
\* the verification is made, or with a failure.
AnswerReturns(t) ==
    /\ c_pc[t] = "answering"
    /\ \/ \E text \in Texts :
             /\ c_text' = [c_text EXCEPT ![t] = text]
             /\ c_pc' = [c_pc EXCEPT ![t] = "verifying"]
             /\ c_calls' = [c_calls EXCEPT ![t] = 2]
             /\ UNCHANGED <<c_result, c_verified>>
       \/ /\ FailureReturnsText(t)
          /\ c_verified' = [c_verified EXCEPT ![t] =
                                 [kind |-> "unanswered", confidence |-> 0]]
          /\ UNCHANGED <<c_text, c_calls>>
    /\ UNCHANGED <<processed_sources, clarification_cache, ps_attempted,
                   ps_results, ps_steps, ps_pc, c_req>>
    /\ UNCHANGED <<dirVars, routerVars, writerVars>>

\* if confidence >= self.confidence_thresholds["clarification"]
CachesAlways(confidence) == TRUE
MeetsClarificationThreshold(confidence) == confidence >= ClarificationThreshold

\* The completion call for the verification ends; the answer is cached when
\* the confidence allows it, and returned.
VerifyReturns(t) ==
    /\ c_pc[t] = "verifying"
    /\ \E v \in VerifyOutcomes :
          /\ c_verified' = [c_verified EXCEPT ![t] = v]
          /\ IF v.kind \in {"fail", "malformed"}
               THEN /\ FailureReturnsText(t)
                    /\ UNCHANGED clarification_cache
               ELSE /\ c_pc' = [c_pc EXCEPT ![t] = "done"]
                    /\ c_result' = [c_result EXCEPT ![t] = c_text[t]]
                    /\ LET key == CacheKey(c_req[t].source_id, c_req[t].query)
                       IN IF MeetsClarificationThreshold(v.confidence)
                            THEN clarification_cache' =
                                   [k \in (DOMAIN clarification_cache) \cup {key} |->
                                      IF k = key
                                        THEN [response |-> c_text[t],
                                              confidence |-> v.confidence]
                                        ELSE clarification_cache[k]]
                            ELSE UNCHANGED clarification_cache
    /\ UNCHANGED <<processed_sources, ps_attempted, ps_results, ps_steps,
                   ps_pc, c_req, c_text, c_calls>>
    /\ UNCHANGED <<dirVars, routerVars, writerVars>>

InitAgent == DirectorIdle /\ RouterIdle /\ WriterIdle /\ AgentIdle

NextAgent ==
    \/ ProcessNextSource
    \/ ProcessAllReturn
    \/ \E t \in Calls, source_id \in AgentSourceIds, query \in Queries :
          StartClarification(t, source_id, query)
    \/ \E t \in Calls : AnswerReturns(t)
    \/ \E t \in Calls : VerifyReturns(t)

SpecAgent == InitAgent /\ [][NextAgent]_vars

(***************************************************************************)
(* SourceAgent behind the Director of initialize_writing_pipeline          *)
(***************************************************************************)

\* The ids the router gives the sources: the keys of cleaned_web_sources
\* and cleaned_twitter_sources, which the caller chooses.
RouterSourceIdOf == <<"s1", "s2", "s3", "s4">>

\* agent_info.assigned_sources of the agent: ids of the caller's choice,
\* among them the ids source_0, source_1, ... in this and in another order.
\* The agent's source_urls are the urls of these sources, in this order.
AssignedChoices ==
    { [i \in 1..NumUrls |-> RouterSourceIdOf[i]],
      [i \in 1..NumUrls |-> SourceIdOf[i]],
      [i \in 1..NumUrls |-> SourceIdOf[NumUrls + 1 - i]] }

\* The agent built for agent_1 and registered with its assigned sources.
PipelineAgent == "agent_1"

\* The state after initialize_writing_pipeline: one agent is registered on
\* the director with its assigned sources; none of its methods has run.
InitAgentPipeline ==
    /\ \E assigned \in AssignedChoices :
          /\ agents = {PipelineAgent}
          /\ agent_states = [a \in {PipelineAgent} |-> AgentState(assigned)]
          /\ source_assignments = [s \in Range(assigned) |-> PipelineAgent]
    /\ query_history = << >>
    /\ sem_value = max_parallel_queries
    /\ pc = [t \in Tasks |-> "new"]
    /\ req = [t \in Tasks |-> NoReq]
    /\ fate = [t \in Tasks |-> "ok"]
    /\ result = [t \in Tasks |-> NotYet]
    /\ returned = << >>
    /\ health = NoHealth
    /\ RouterIdle /\ WriterIdle /\ AgentIdle

\* process_all_sources, and then the agent calls the Director makes for
\* requests that passed its validation: their source is one of the agent's
\* assigned sources.
NextAgentPipeline ==
    \/ ProcessNextSource
    \/ ProcessAllReturn
    \/ \E t \in Calls, source_id \in DOMAIN source_assignments,
          query \in Queries :
          StartClarification(t, source_id, query)
    \/ \E t \in Calls : AnswerReturns(t)
    \/ \E t \in Calls : VerifyReturns(t)

SpecAgentPipeline == InitAgentPipeline /\ [][NextAgentPipeline]_vars

(***************************************************************************)
(* SourceAgent: properties                                                 *)
(***************************************************************************)

\* Call t leaves its first segment in this step.
Starts(t) == c_pc[t] = "new" /\ c_pc'[t] # "new"

\* Call t ends in this step.
Ends(t) == c_pc[t] \in {"answering", "verifying"}
              /\ c_pc'[t] \notin {"answering", "verifying"}

KeyOf(t) == CacheKey(c_req[t].source_id, c_req[t].query)

\* C12: get_clarification for a source that is not in processed_sources
\* fails with SourceNotFoundError instead of returning an answer.
C12_UnprocessedSourceRaises ==
    [][\A t \in Calls :
          (Starts(t) /\ c_req'[t].source_id \notin processed_sources) =>
             RaiseSourceNotFound(t)]_vars

\* A completion-service call of call t failed or gave malformed JSON.
CompletionFailed(t) == c_verified[t].kind \in {"unanswered", "fail", "malformed"}

\* The verification of call t gave a confidence below the threshold.
LowConfidence(t) ==
    /\ c_verified[t].kind = "scored"
    /\ c_verified[t].confidence < ClarificationThreshold

\* C13: every entry of clarification_cache was stored by a get_clarification
\* call whose verification confidence was >= 0.75; a call with a lower
\* confidence returns its answer and a failed call returns, and neither
\* changes the cache.
C13_CacheOnlyConfident ==
    /\ [](\A k \in DOMAIN clarification_cache :
             /\ clarification_cache[k].confidence >= ClarificationThreshold
             /\ \E t \in Calls :
                   /\ c_pc[t] = "done"
                   /\ KeyOf(t) = k
                   /\ c_verified[t].kind = "scored"
                   /\ c_verified[t].confidence = clarification_cache[k].confidence
                   /\ c_text[t] = clarification_cache[k].response)
    /\ [](\A t \in Calls : LowConfidence(t) =>
             c_pc[t] = "done" /\ c_result[t] = c_text[t])
    /\ [][\A t \in Calls :
             (Ends(t) /\ (LowConfidence(t)' \/ CompletionFailed(t)')) =>
                UNCHANGED clarification_cache]_vars

\* C13 witness: one call cached its answer, another call returned an answer
\* of lower confidence that is not in the cache.
C13_Witness ==
    /\ clarification_cache # << >>
    /\ \E t \in Calls :
          /\ LowConfidence(t)
          /\ c_result[t] \in Texts
          /\ KeyOf(t) \notin DOMAIN clarification_cache

\* C14: once an answer for (source_id, query) is in the cache it stays the
\* answer of that key, and every later call with the same source_id and
\* query returns it without a completion-service call.
C14_CachedAnswerIsFinal ==
    [][/\ \A k \in DOMAIN clarification_cache :
             /\ k \in DOMAIN clarification_cache'
             /\ clarification_cache'[k].response = clarification_cache[k].response
       /\ \A t \in Calls :
             (Starts(t) /\ KeyOf(t)' \in DOMAIN clarification_cache) =>
                /\ c_pc'[t] = "done"
                /\ c_result'[t] = clarification_cache[KeyOf(t)'].response
                /\ c_calls'[t] = 0]_vars

\* C15: get_clarification never raises when a completion-service call fails
\* or returns malformed JSON: it returns its error string and leaves the
\* cache unchanged.
C15_CompletionFailureReturnsText ==
    /\ [](\A t \in Calls :
             /\ c_pc[t] # "raised"
             /\ CompletionFailed(t) =>
                   c_pc[t] = "done" /\ c_result[t] = ErrorText)
    /\ [][\A t \in Calls :
             (Ends(t) /\ CompletionFailed(t)') =>
                UNCHANGED clarification_cache]_vars

\* C15 witness: with an answer in the cache, one call lost its answer call
\* and one got malformed JSON from the verification; both returned the
\* error string.
C15_Witness ==
    /\ \E t \in Calls :
          c_verified[t].kind = "malformed" /\ c_result[t] = ErrorText
    /\ \E t \in Calls :
          c_verified[t].kind = "unanswered" /\ c_result[t] = ErrorText

\* The process_source call that process_all_sources made last, while its
\* outcome is at hand.
LastProcessed == ps_attempted[Len(ps_attempted)].source_id
JustProcessed == ps_steps # NoSteps

\* C29 as stated: whenever a step of process_source failed, the call raised
\* and no ProcessedSource was stored for the source.
C29_AnyStepFailurePropagates ==
    (JustProcessed /\ ps_steps.failed # {}) =>
        /\ ps_steps.raised
        /\ LastProcessed \notin processed_sources

\* C29, amended: process_source raises when its summary call failed, and
\* when quotes were extracted (the insight prompt cannot be built from
\* them), and in no other case; when it raises, no ProcessedSource is stored
\* for the source; a failed plan, quote or insight call is replaced by its
\* fallback, and the ProcessedSource is stored unless the call raised for
\* one of the two reasons above.
C29_OnlySummaryFailurePropagates ==
    JustProcessed =>
        /\ ps_steps.raised <=>
                ("summary" \in ps_steps.failed \/ ps_steps.quotes = "some")
        /\ ps_steps.raised => LastProcessed \notin processed_sources
        /\ ~ps_steps.raised =>
              /\ LastProcessed \in processed_sources
              /\ LastProcessed \in ps_results
        /\ "plan" \in ps_steps.failed => ps_steps.plan = "fallback"
        /\ "quotes" \in ps_steps.failed => ps_steps.quotes = "fallback"
        /\ "insights" \in ps_steps.failed => ps_steps.insights = "fallback"

\* C29 witness: one process_source call stored its source although its
\* plan, quote and insight calls all failed, after an earlier call raised
\* and stored nothing.
C29_Witness ==
    /\ JustProcessed
    /\ ps_steps.failed = {"plan", "quotes", "insights"}
    /\ ~ps_steps.raised
    /\ LastProcessed \in processed_sources
    /\ ~ps_attempted[1].succeeded
    /\ SourceIdOf[1] \notin processed_sources

\* The assigned sources the Director registered for the agent.
RegisteredSources == agent_states[PipelineAgent].assigned_sources

\* C39: process_all_sources stores the source of each url under the id the
\* Director registered for it, so a clarification the Director routes to the
\* agent for an assigned source that was processed finds the source.
C39_ProcessedUnderRegisteredId ==
    /\ \A i \in DOMAIN ps_attempted :
          ps_attempted[i].succeeded =>
              ps_attempted[i].source_id = RegisteredSources[i]
    /\ \A t \in Calls, i \in DOMAIN ps_attempted :
          (/\ c_pc[t] = "done"
           /\ ps_attempted[i].succeeded
           /\ c_req[t].source_id = RegisteredSources[i]) =>
              c_result[t] # NotFoundText

\* C16: process_all_sources tries every source in order whatever fails, never
\* raises, and returns exactly the sources whose processing succeeded.
C16_ProcessAllSourcesContinues ==
    /\ ps_pc # "raised"
    /\ \A i \in DOMAIN ps_attempted : ps_attempted[i].source_id = SourceIdOf[i]
    /\ ps_pc = "returned" =>
          /\ Len(ps_attempted) = NumUrls
          /\ ps_results = { ps_attempted[i].source_id :
                              i \in { j \in DOMAIN ps_attempted :
                                        ps_attempted[j].succeeded } }

\* C16 witness: process_all_sources returned after the first source failed
\* and a later one succeeded.
C16_Witness ==
    /\ ps_pc = "returned"
    /\ ~ps_attempted[1].succeeded
    /\ \E i \in DOMAIN ps_attempted : ps_attempted[i].succeeded
    /\ ps_results # {}

====
